---- MODULE Spec2Model ----
(***************************************************************************)
(* Flood Risk Assessment & Evacuation Planner (class FloodRiskApp).        *)
(*                                                                         *)
(* The elevation resolver getElevationData with its cache, its provider    *)
(* chain and the simulated fallback, and the risk engine                   *)
(* calculateFloodRisk with the water proximity check, as a state machine.  *)
(* JavaScript is cooperative: the code between two awaits is one atomic    *)
(* step, so every action below is the code from one await to the next.     *)
(*                                                                         *)
(* Units: coordinates are integers in 1e-5 degree, provider payloads are   *)
(* integers in 0.1 m, rainfall is an integer in 0.1 mm, Math.random() is   *)
(* an integer in 1/1000, time is in milliseconds.  Risk scores are IEEE    *)
(* 754 doubles, computed bit for bit.                                      *)
(***************************************************************************)
EXTENDS Integers, Sequences, FiniteSets, TLC

VARIABLES
    config,          \* window.CONFIG (fixed once the page has loaded)
    now,             \* Date.now()
    elevationCache,  \* this.elevationCache
    calls,           \* the getElevationData activations, one per call site
    risk,            \* the calculateFloodRisk activation
    rain,            \* the getRainfallData activations, one per call site
    userLocation,    \* this.userLocation
    search,          \* the searchForSaferCity activation
    display,         \* the safer-city panel, and this.saferLocation
    assessments,     \* the assessLocationRisk activations, one per request
    currentRisk      \* this.currentRiskLevel and this.currentRiskScore

vars ==
    <<config, now, elevationCache, calls, risk, rain, userLocation, search,
      display, assessments, currentRisk>>

searchVars == <<userLocation, search, display>>

sessionVars == <<assessments, currentRisk>>

----------------------------------------------------------------------------
(* Bounds of the model                                                     *)

\* The clock is observed at the instants 0, 1, T, T + 1, 2T, 2T + 1, ...
\* (T the cache duration) and stops at the instant of index MaxTicks.
MaxTicks == 3

\* The probes a search has begun, at most, when the user asks again.
RequestWindow == 1

----------------------------------------------------------------------------
(* Program constants                                                       *)

CACHE_DURATION == 3600000
MAX_RETRIES == 2

\* cacheElevation's fallback when there is no window.CONFIG
DefaultCacheDuration == 3600000

GooglePlaceholder == "YOUR_GOOGLE_MAPS_API_KEY"
MapBoxPlaceholder == "YOUR_MAPBOX_API_KEY"

\* The activations that call getElevationData: an assessLocationRisk, a
\* later assessLocationRisk requested while the first may still be in
\* flight, and the probe loop of searchForSaferCity.
CallSites == {"assess", "later", "probe"}

\* The requests of the user, each of which starts an assessLocationRisk.
Requests == {"assess", "later"}

\* The two activations OverlapSpec runs at the same time.
Overlapping == {"assess", "probe"}

\* Spec and CacheSpec follow the resolutions of one call site, one after
\* the other.
Callers == {"assess"}

\* The order in which getElevationData pushes the sources.
ProviderOrder == <<"USGS", "OpenElevation", "Google", "MapBox">>

----------------------------------------------------------------------------
(* Values                                                                  *)

\* A JavaScript number as far as the resolver tells them apart.
Num(v) == [tag |-> "num", v |-> v]
NaN == [tag |-> "NaN", v |-> 0]
Null == [tag |-> "null", v |-> 0]

NoReading == [elevation |-> Null, source |-> "none", accuracy |-> "none"]

\* Math.round on a value given in tenths: the nearest integer, halves up.
MathRound10(v10) == (v10 + 5) \div 10

\* Number.prototype.toFixed(4) of a coordinate given in 1e-5 degree: the
\* sign is printed whenever the number is negative ("-0.0000"), the
\* magnitude is rounded to the nearest 1e-4, halves up.
ToFixed4(x) ==
    LET mag == IF x < 0 THEN -x ELSE x
    IN  <<x < 0, (mag + 5) \div 10>>

CacheKey(p) == <<ToFixed4(p.lat), ToFixed4(p.lng)>>

\* Sample coordinates: Houston and a point 1e-5 degree away from it, which
\* round to the same key ...
NearbyPoints ==
    { [lat |-> 2976040, lng |-> -9536980],
      [lat |-> 2976041, lng |-> -9536984] }

\* ... and with them a point in the Rocky Mountains, under another key.
Points == NearbyPoints \cup { [lat |-> 4500000, lng |-> -11000000] }

Deg(d) == d * 100000

\* Outcomes of Math.random(), in 1/1000.
RandomSamples == {0, 500, 999}

\* Payload values a provider can report, in 0.1 m.
PayloadSamples == {-25, 124}

----------------------------------------------------------------------------
(* Configuration                                                           *)

NoConfig ==
    [present |-> FALSE,
     ENABLE_USGS |-> FALSE, ENABLE_OPEN_ELEVATION |-> FALSE,
     ENABLE_GOOGLE |-> FALSE, ENABLE_MAPBOX |-> FALSE,
     GOOGLE_MAPS_API_KEY |-> GooglePlaceholder,
     MAPBOX_API_KEY |-> MapBoxPlaceholder]

\* Every combination of the four flags; the key of an enabled paid provider
\* is absent, the placeholder, or a real key.
Configs ==
    {NoConfig} \cup
    { c \in [present : {TRUE},
             ENABLE_USGS : BOOLEAN, ENABLE_OPEN_ELEVATION : BOOLEAN,
             ENABLE_GOOGLE : BOOLEAN, ENABLE_MAPBOX : BOOLEAN,
             GOOGLE_MAPS_API_KEY : {"", GooglePlaceholder, "google-key"},
             MAPBOX_API_KEY : {"", MapBoxPlaceholder, "mapbox-key"}] :
        /\ (~c.ENABLE_GOOGLE => c.GOOGLE_MAPS_API_KEY = GooglePlaceholder)
        /\ (~c.ENABLE_MAPBOX => c.MAPBOX_API_KEY = MapBoxPlaceholder) }

----------------------------------------------------------------------------
(* getElevationData: the candidate list                                    *)

Enabled(cfg, provider) ==
    /\ cfg.present
    /\ CASE provider = "USGS" -> cfg.ENABLE_USGS
         [] provider = "OpenElevation" -> cfg.ENABLE_OPEN_ELEVATION
         [] provider = "Google" -> cfg.ENABLE_GOOGLE
         [] provider = "MapBox" -> cfg.ENABLE_MAPBOX

PushIf(list, cond, provider) == IF cond THEN Append(list, provider) ELSE list

\* A variant that pushes MapBox before Google.
ElevationSourcesMapBoxFirst(cfg) ==
    LET s1 == PushIf(<<>>, Enabled(cfg, "USGS"), "USGS")
        s2 == PushIf(s1, Enabled(cfg, "OpenElevation"), "OpenElevation")
        s3 == PushIf(s2, Enabled(cfg, "MapBox"), "MapBox")
        s4 == PushIf(s3, Enabled(cfg, "Google"), "Google")
    IN  IF Len(s4) = 0 THEN <<"USGS", "OpenElevation">> ELSE s4

\* The four pushes in source order, then the default pair when the list is
\* still empty.
ElevationSources(cfg) ==
    LET s1 == PushIf(<<>>, Enabled(cfg, "USGS"), "USGS")
        s2 == PushIf(s1, Enabled(cfg, "OpenElevation"), "OpenElevation")
        s3 == PushIf(s2, Enabled(cfg, "Google"), "Google")
        s4 == PushIf(s3, Enabled(cfg, "MapBox"), "MapBox")
    IN  IF Len(s4) = 0 THEN <<"USGS", "OpenElevation">> ELSE s4

----------------------------------------------------------------------------
(* The providers                                                           *)

\* What the network delivers for one request.
\*   network_error  fetch rejects
\*   http_5xx       a response with a server error status (response.ok false)
\*   malformed      the body is not JSON, or lacks the structure read
\*   no_results     JSON without results, or with an empty results array
\*   null_value     results[0] holds null where the elevation is read
\*   nan_value      results[0] holds no number there ("NoData", or nothing)
\*   value          results[0] holds the number v (in 0.1 m)
FailureKinds ==
    {"network_error", "http_5xx", "malformed", "no_results"}

Responses ==
    [kind : FailureKinds \cup {"null_value", "nan_value"}, v : {0}]
    \cup [kind : {"value"}, v : PayloadSamples]

\* The settlement of a request the provider never sent.
NoRequest == [kind |-> "no_request", v |-> 0]

Return(elevation, source, accuracy) ==
    [threw |-> FALSE,
     reading |-> [elevation |-> elevation, source |-> source,
                  accuracy |-> accuracy]]

Throw == [threw |-> TRUE, reading |-> NoReading]

\* Math.round of the value read from the payload.
RoundedValue(resp) ==
    CASE resp.kind = "value" -> Num(MathRound10(resp.v))
      [] resp.kind = "null_value" -> Num(0)
      [] OTHER -> NaN

getUSGSElevation(resp) ==
    IF resp.kind = "network_error" THEN Throw
    ELSE IF resp.kind = "http_5xx" THEN Throw
    ELSE IF resp.kind = "malformed" THEN Throw
    ELSE IF resp.kind # "no_results"
         THEN Return(RoundedValue(resp), "USGS", "high")
    ELSE Throw

\* A variant that tags its reading as the first provider's.
getOpenElevationDataTaggedUSGS(resp) ==
    IF resp.kind \in {"value", "nan_value"}
    THEN Return(RoundedValue(resp), "USGS", "high")
    ELSE Throw

getOpenElevationData(resp) ==
    IF resp.kind = "network_error" THEN Throw
    ELSE IF resp.kind = "http_5xx" THEN Throw
    ELSE IF resp.kind = "malformed" THEN Throw
    ELSE IF resp.kind # "no_results" /\ resp.kind # "null_value"
         THEN Return(RoundedValue(resp), "OpenElevation", "medium")
    ELSE Throw

\* A variant of the test that lets the placeholder pass for a key.
KeyMissingWhenEmpty(apiKey, placeholder) == apiKey = ""

KeyMissing(apiKey, placeholder) == apiKey = "" \/ apiKey = placeholder

GoogleKey(cfg) ==
    IF cfg.present THEN cfg.GOOGLE_MAPS_API_KEY ELSE GooglePlaceholder

MapBoxKey(cfg) ==
    IF cfg.present THEN cfg.MAPBOX_API_KEY ELSE MapBoxPlaceholder

getGoogleElevation(cfg, resp) ==
    IF KeyMissing(GoogleKey(cfg), GooglePlaceholder) THEN Throw
    ELSE IF resp.kind = "network_error" THEN Throw
    ELSE IF resp.kind = "http_5xx" THEN Throw
    ELSE IF resp.kind = "malformed" THEN Throw
    ELSE IF resp.kind # "no_results" /\ resp.kind # "null_value"
         THEN Return(RoundedValue(resp), "Google", "high")
    ELSE Throw

\* A variant that reads the elevation out of the answer.
getMapBoxElevationDecoding(cfg, resp) ==
    IF KeyMissing(MapBoxKey(cfg), MapBoxPlaceholder) THEN Throw
    ELSE IF resp.kind = "value"
         THEN Return(RoundedValue(resp), "MapBox", "medium")
    ELSE Throw

getMapBoxElevation(cfg, resp) ==
    IF KeyMissing(MapBoxKey(cfg), MapBoxPlaceholder) THEN Throw
    ELSE IF resp.kind = "network_error" THEN Throw
    ELSE IF resp.kind = "http_5xx" THEN Throw
    ELSE Throw

\* Whether invoking the provider reaches its fetch.
SendsRequest(cfg, provider) ==
    CASE provider = "Google" -> ~KeyMissing(GoogleKey(cfg), GooglePlaceholder)
      [] provider = "MapBox" -> ~KeyMissing(MapBoxKey(cfg), MapBoxPlaceholder)
      [] OTHER -> TRUE

\* source(): the closure pushed for the provider.
Source(cfg, provider, resp) ==
    CASE provider = "USGS" -> getUSGSElevation(resp)
      [] provider = "OpenElevation" -> getOpenElevationData(resp)
      [] provider = "Google" -> getGoogleElevation(cfg, resp)
      [] provider = "MapBox" -> getMapBoxElevation(cfg, resp)

----------------------------------------------------------------------------
(* The simulated fallback                                                  *)

Abs(x) == IF x < 0 THEN -x ELSE x

\* baseElevation before the random term.
RegionalBase(lat, lng) ==
    100
    + (IF lat > Deg(40) /\ lng < Deg(-100) THEN 1500 ELSE 0)
    + (IF lat > Deg(35) /\ lat < Deg(45) /\ lng > Deg(-85) /\ lng < Deg(-75)
       THEN 800 ELSE 0)
    + (IF lat > Deg(30) /\ lat < Deg(40) /\ lng > Deg(-120) /\ lng < Deg(-110)
       THEN 1200 ELSE 0)
    - (IF Abs(lng) > Deg(75) /\ lat < Deg(35) THEN 50 ELSE 0)
    - (IF lng < Deg(-120) /\ lat < Deg(40) THEN 30 ELSE 0)

Max(a, b) == IF a >= b THEN a ELSE b

\* A variant without the clamp at zero.
getSimulatedElevationUnclamped(lat, lng, r) ==
    MathRound10(10 * RegionalBase(lat, lng) + 2 * r - 1000)

\* r is Math.random() in 1/1000: base + (r/1000 - 0.5) * 200 is
\* (10 * base + 2 * r - 1000) / 10, rounded and clamped at zero.
getSimulatedElevation(lat, lng, r) ==
    Max(0, MathRound10(10 * RegionalBase(lat, lng) + 2 * r - 1000))

SimulatedResult(p, r) ==
    [elevation |-> Num(getSimulatedElevation(p.lat, p.lng, r)),
     source |-> "simulated", accuracy |-> "low"]

----------------------------------------------------------------------------
(* The cache                                                               *)

\* this.elevationCache is undefined until the first cacheElevation.
NoCache == [defined |-> FALSE, map |-> <<>>]

CacheDuration(cfg) ==
    IF cfg.present THEN CACHE_DURATION ELSE DefaultCacheDuration

\* A variant of Map.set that keeps the entry a key already has.
MapSetIfAbsent(m, key, entry) ==
    [k \in (DOMAIN m) \cup {key} |-> IF k \in DOMAIN m THEN m[k] ELSE entry]

MapSet(m, key, entry) ==
    [k \in (DOMAIN m) \cup {key} |-> IF k = key THEN entry ELSE m[k]]

MapDelete(m, key) == [k \in (DOMAIN m) \ {key} |-> m[k]]

\* A variant that stamps the entry with no lifetime at all.
cacheElevationWithoutExpiry(cache, cfg, t, key, data) ==
    [defined |-> TRUE,
     map |-> MapSet(cache.map, key,
                    [data |-> data, timestamp |-> t, expiry |-> 0])]

cacheElevation(cache, cfg, t, key, data) ==
    [defined |-> TRUE,
     map |-> MapSet(cache.map, key,
                    [data |-> data, timestamp |-> t,
                     expiry |-> CacheDuration(cfg)])]

\* Variants of the staleness test: stale from the expiry on, and never stale.
StaleFromExpiry(entry, t) == t - entry.timestamp >= entry.expiry

StaleNever(entry, t) == FALSE

\* The entry is stale when Date.now() - timestamp > expiry.
Stale(entry, t) == t - entry.timestamp > entry.expiry

\* getCachedElevation: what it returns ...
CachedData(cache, t, key) ==
    IF ~cache.defined THEN NoReading
    ELSE IF key \notin DOMAIN cache.map THEN NoReading
    ELSE IF Stale(cache.map[key], t) THEN NoReading
    ELSE cache.map[key].data

\* A variant that stamps the entry anew when it is read.
CacheAfterGetTouching(cache, t, key) ==
    IF cache.defined /\ key \in DOMAIN cache.map
    THEN IF Stale(cache.map[key], t)
         THEN [cache EXCEPT !.map = MapDelete(cache.map, key)]
         ELSE [cache EXCEPT !.map[key].timestamp = t]
    ELSE cache

\* A variant that deletes the entry it has read, stale or not.
CacheAfterGetDeleting(cache, t, key) ==
    IF cache.defined /\ key \in DOMAIN cache.map
    THEN [cache EXCEPT !.map = MapDelete(cache.map, key)]
    ELSE cache

\* ... and the cache it leaves: a stale entry is deleted.
CacheAfterGet(cache, t, key) ==
    IF cache.defined /\ key \in DOMAIN cache.map /\ Stale(cache.map[key], t)
    THEN [cache EXCEPT !.map = MapDelete(cache.map, key)]
    ELSE cache

----------------------------------------------------------------------------
(* getElevationData                                                        *)

NoPoint == [lat |-> 0, lng |-> 0]

\* An activation of getElevationData.
\*   pc        idle | awaiting (suspended in `await source()`) | done
\*             (returned result) | rejected (an error left the function)
\*   lookup    what getCachedElevation found: none | miss | expired | hit
\*   log       the sources invoked so far, each pending, failed or ok
\*   last      the kind of the latest settlement of a source
\*   fetching  the awaited source has a request on the network
\*   hung      the network will never answer that request
IdleCall ==
    [pc |-> "idle", point |-> NoPoint, lookup |-> "none", log |-> <<>>,
     last |-> "none", fetching |-> FALSE, hung |-> FALSE,
     result |-> NoReading]

\* Variants of the loop body: without the try/catch, and without the return.
AttemptWithoutCatch(res) ==
    IF res.threw THEN "propagate"
    ELSE IF res.reading.elevation # Null THEN "return"
    ELSE "continue"

AttemptWithoutReturn(res) == "continue"

\* The loop body around `await source()`: what becomes of a settlement.
\* A throw is caught and the loop continues; a result is accepted when its
\* elevation is not null.
Attempt(res) ==
    IF res.threw THEN "continue"
    ELSE IF res.reading.elevation # Null THEN "return"
    ELSE "continue"

\* Calling source(): the call is logged, and suspended on its promise.
Invoke(call, provider) ==
    [call EXCEPT
        !.pc = "awaiting",
        !.log = Append(@, [provider |-> provider, status |-> "pending"]),
        !.fetching = SendsRequest(config, provider),
        !.hung = FALSE]

Mark(log, status) == [log EXCEPT ![Len(log)].status = status]

\* A caller calls getElevationData(p.lat, p.lng): the cache check, and on a
\* miss the candidate list and the call of its first source.
BeginCall(c, p) ==
    /\ calls[c].pc \in {"idle", "done", "rejected"}
    /\ LET key == CacheKey(p)
           cached == CachedData(elevationCache, now, key)
           present == elevationCache.defined
                      /\ key \in DOMAIN elevationCache.map
           fresh == [IdleCall EXCEPT !.point = p]
       IN  /\ elevationCache' = CacheAfterGet(elevationCache, now, key)
           /\ calls' =
                [calls EXCEPT ![c] =
                    IF cached # NoReading
                    THEN [fresh EXCEPT !.pc = "done", !.lookup = "hit",
                                       !.result = cached]
                    ELSE Invoke([fresh EXCEPT
                                    !.lookup = IF present THEN "expired"
                                               ELSE "miss"],
                                ElevationSources(config)[1])]

Begin(c, p) ==
    /\ BeginCall(c, p)
    /\ UNCHANGED <<config, now, risk, rain, searchVars,
                   sessionVars>>

\* How the invoked source ended: with a reading whose elevation is not
\* null, or not.
Ended(res) ==
    IF ~res.threw /\ res.reading.elevation # Null THEN "ok" ELSE "failed"

\* The awaited source settles with resp; r is the Math.random() the
\* simulated fallback draws when it is reached.
Resume(c, resp, r) ==
    LET call == calls[c]
        sources == ElevationSources(config)
        i == Len(call.log)
        key == CacheKey(call.point)
        res == Source(config, sources[i], resp)
        what == Attempt(res)
        seen == [call EXCEPT !.last = resp.kind, !.fetching = FALSE,
                             !.log = Mark(@, Ended(res))]
    IN  IF what = "return"
        THEN /\ elevationCache' =
                    cacheElevation(elevationCache, config, now, key,
                                   res.reading)
             /\ calls' = [calls EXCEPT ![c] =
                    [seen EXCEPT !.pc = "done", !.result = res.reading]]
        ELSE IF what = "continue" /\ i < Len(sources)
        THEN /\ elevationCache' = elevationCache
             /\ calls' = [calls EXCEPT ![c] = Invoke(seen, sources[i + 1])]
        ELSE IF what = "continue"
        THEN /\ elevationCache' =
                    cacheElevation(elevationCache, config, now, key,
                                   SimulatedResult(call.point, r))
             /\ calls' = [calls EXCEPT ![c] =
                    [seen EXCEPT !.pc = "done",
                                 !.result = SimulatedResult(call.point, r)]]
        ELSE /\ elevationCache' = elevationCache
             /\ calls' = [calls EXCEPT ![c] = [seen EXCEPT !.pc = "rejected"]]

\* The settlements the awaited source can see.
Settlements(call) == IF call.fetching THEN Responses ELSE {NoRequest}

Settle(c) ==
    /\ calls[c].pc = "awaiting"
    /\ ~calls[c].hung
    /\ \E resp \in Settlements(calls[c]) :
       \E r \in RandomSamples : Resume(c, resp, r)
    /\ UNCHANGED <<config, now, risk, rain, searchVars,
                   sessionVars>>

\* The network never answers the request in flight.
Hang(c) ==
    /\ calls[c].pc = "awaiting"
    /\ calls[c].fetching
    /\ ~calls[c].hung
    /\ calls' = [calls EXCEPT ![c].hung = TRUE]
    /\ UNCHANGED <<config, now, elevationCache, risk, rain, searchVars,
                   sessionVars>>

\* Time passes, from one observed instant to the next.
Instant(k) == (k \div 2) * CACHE_DURATION + (k % 2)

InstantIndex(t) == 2 * (t \div CACHE_DURATION) + (t % CACHE_DURATION)

Tick ==
    /\ InstantIndex(now) < MaxTicks
    /\ now' = Instant(InstantIndex(now) + 1)
    /\ UNCHANGED <<config, elevationCache, calls, risk, rain, searchVars,
                   sessionVars>>

----------------------------------------------------------------------------
(* Number arithmetic                                                       *)

\* A natural number of any size: its limbs in base 2^13, the least
\* significant first, the most significant not zero.
Base == 2^13

\* Op(v).  The argument is evaluated once, however often Op uses it.
Eager(v, Op(_)) == CHOOSE r \in {Op(x) : x \in {v}} : TRUE

RECURSIVE SmallBitLen(_)
SmallBitLen(n) == IF n = 0 THEN 0 ELSE 1 + SmallBitLen(n \div 2)

LimbBits == SmallBitLen(Base) - 1

Limb(a, i) == IF i <= Len(a) THEN a[i] ELSE 0

RECURSIVE FromNat(_)
FromNat(n) == IF n = 0 THEN <<>> ELSE <<n % Base>> \o FromNat(n \div Base)

RECURSIVE AddFrom(_, _, _, _)
AddFrom(a, b, i, carry) ==
    IF i > Len(a) /\ i > Len(b)
    THEN IF carry = 0 THEN <<>> ELSE <<carry>>
    ELSE LET t == Limb(a, i) + Limb(b, i) + carry
         IN  <<t % Base>> \o AddFrom(a, b, i + 1, t \div Base)

BigAdd(a, b) == Eager(<<a, b>>, LAMBDA x : AddFrom(x[1], x[2], 1, 0))

RECURSIVE MulSmallFrom(_, _, _, _)
MulSmallFrom(a, d, i, carry) ==
    IF i > Len(a)
    THEN IF carry = 0 THEN <<>> ELSE <<carry>>
    ELSE LET t == a[i] * d + carry
         IN  <<t % Base>> \o MulSmallFrom(a, d, i + 1, t \div Base)

\* a * d for 0 < d <= Base
BigMulSmall(a, d) ==
    Eager(<<a, d>>, LAMBDA x : MulSmallFrom(x[1], x[2], 1, 0))

ShiftLimbs(a, q) ==
    Eager(a, LAMBDA x : IF x = <<>> THEN x ELSE [i \in 1..q |-> 0] \o x)

RECURSIVE MulFrom(_, _, _)
MulFrom(a, b, i) ==
    IF i > Len(b) THEN <<>>
    ELSE BigAdd(BigMulSmall(a, b[i]), ShiftLimbs(MulFrom(a, b, i + 1), 1))

BigMul(a, b) ==
    Eager(<<a, b>>,
          LAMBDA x : IF x[1] = <<>> THEN <<>> ELSE MulFrom(x[1], x[2], 1))

BigShiftLeft(a, s) ==
    Eager(<<a, s>>, LAMBDA x :
        ShiftLimbs(BigMulSmall(x[1], 2^(x[2] % LimbBits)),
                   x[2] \div LimbBits))

RECURSIVE Trim(_)
Trim(a) ==
    IF a = <<>> THEN a
    ELSE IF a[Len(a)] = 0 THEN Trim(SubSeq(a, 1, Len(a) - 1))
    ELSE a

\* The quotient and the remainder of a by d, for 0 < d <= Base
RECURSIVE DivSmallFrom(_, _, _, _)
DivSmallFrom(a, d, i, rem) ==
    IF i = 0 THEN [q |-> <<>>, r |-> rem]
    ELSE Eager(rem * Base + a[i], LAMBDA cur :
             Eager(DivSmallFrom(a, d, i - 1, cur % d), LAMBDA rest :
                 [q |-> Append(rest.q, cur \div d), r |-> rest.r]))

BigDivSmall(a, d) ==
    Eager(a, LAMBDA x :
        Eager(DivSmallFrom(x, d, Len(x), 0),
              LAMBDA qr : [q |-> Trim(qr.q), r |-> qr.r]))

BigShiftRightOf(a, s) ==
    LET q == s \div LimbBits
    IN  IF q >= Len(a) THEN <<>>
        ELSE BigDivSmall(SubSeq(a, q + 1, Len(a)), 2^(s % LimbBits)).q

BigShiftRight(a, s) == Eager(<<a, s>>, LAMBDA x : BigShiftRightOf(x[1], x[2]))

\* Whether a bit of a below bit s is set
LowBitsSet(a, s) ==
    LET q == s \div LimbBits
    IN  \/ \E i \in 1..q : Limb(a, i) # 0
        \/ Limb(a, q + 1) % 2^(s % LimbBits) # 0

Bit(a, k) == (Limb(a, k \div LimbBits + 1) \div 2^(k % LimbBits)) % 2

BitLen(a) ==
    IF a = <<>> THEN 0
    ELSE LimbBits * (Len(a) - 1) + SmallBitLen(a[Len(a)])

RECURSIVE BigLessFrom(_, _, _)
BigLessFrom(a, b, i) ==
    IF i = 0 THEN FALSE
    ELSE IF a[i] # b[i] THEN a[i] < b[i]
    ELSE BigLessFrom(a, b, i - 1)

BigLess(a, b) ==
    IF Len(a) # Len(b) THEN Len(a) < Len(b) ELSE BigLessFrom(a, b, Len(a))

\* A Number that is not negative, as the IEEE 754 double it is: m * 2^e
\* with 2^52 <= m < 2^53, or zero.
FZero == [m |-> <<>>, e |-> 0]

\* (n + f) * 2^e rounded to the nearest double, ties to even; the fraction
\* 0 <= f < 1 is not zero exactly when sticky.
RoundOf(n, e, sticky) ==
    LET sh == BitLen(n) - 53
    IN  IF n = <<>> THEN FZero
        ELSE IF sh <= 0 THEN [m |-> BigShiftLeft(n, -sh), e |-> e + sh]
        ELSE LET q == BigShiftRight(n, sh)
                 half == Bit(n, sh - 1) = 1
                 below == sticky \/ LowBitsSet(n, sh - 1)
                 up == half /\ (below \/ Bit(q, 0) = 1)
                 m == IF up THEN BigAdd(q, <<1>>) ELSE q
             IN  IF BitLen(m) > 53
                 THEN [m |-> BigShiftRight(m, 1), e |-> e + sh + 1]
                 ELSE [m |-> m, e |-> e + sh]

Round(n, e, sticky) ==
    Eager(<<n, e, sticky>>, LAMBDA x : RoundOf(x[1], x[2], x[3]))

\* The double n / d of the naturals n and d, 0 < d < 2^9: a division of
\* two integers, or a decimal literal (0.40 is 40 / 100).
FromRatio(n, d) ==
    LET qr == BigDivSmall(BigShiftLeft(FromNat(n), 64), d)
    IN  Round(qr.q, -64, qr.r # 0)

\* x * y
FMulOf(x, y) ==
    IF x.m = <<>> \/ y.m = <<>> THEN FZero
    ELSE Round(BigMul(x.m, y.m), x.e + y.e, FALSE)

FMul(x, y) == Eager(<<x, y>>, LAMBDA p : FMulOf(p[1], p[2]))

\* x + y
FAddOf(x, y) ==
    IF x.m = <<>> THEN y
    ELSE IF y.m = <<>> THEN x
    ELSE IF x.e >= y.e
    THEN Round(BigAdd(BigShiftLeft(x.m, x.e - y.e), y.m), y.e, FALSE)
    ELSE Round(BigAdd(BigShiftLeft(y.m, y.e - x.e), x.m), x.e, FALSE)

FAdd(x, y) == Eager(<<x, y>>, LAMBDA p : FAddOf(p[1], p[2]))

\* x < y
FLess(x, y) ==
    IF y.m = <<>> THEN FALSE
    ELSE IF x.m = <<>> THEN TRUE
    ELSE IF x.e # y.e THEN x.e < y.e
    ELSE BigLess(x.m, y.m)

\* x >= y
FGeq(x, y) == ~FLess(x, y)

----------------------------------------------------------------------------
(* isNearWater                                                             *)

\* A place of the Nominatim answer: whether it has an address at all,
\* whether the address names an ocean, a sea or a lake, and its type and
\* class.
Place(hasAddress, tags, type, class) ==
    [hasAddress |-> hasAddress, tags |-> tags, type |-> type, class |-> class]

PlaceSamples ==
    { Place(TRUE, {}, "city", "place"),
      Place(TRUE, {"lake"}, "city", "place"),
      Place(TRUE, {"ocean", "sea"}, "bay", "natural"),
      Place(TRUE, {}, "water", "natural"),
      Place(TRUE, {}, "river", "water"),
      Place(FALSE, {}, "water", "water") }

\* What Nominatim delivers: the fetch rejects, the body is not a JSON array,
\* or it is the array of places.
WaterResponses ==
    [kind : {"network_error", "malformed"}, places : {<<>>}]
    \cup [kind : {"places"},
          places : {<<>>} \cup {<<a>> : a \in PlaceSamples}
                   \cup {<<a, b>> : a \in PlaceSamples, b \in PlaceSamples}]

\* The callback of data.some: reading a field of a missing address throws.
PlaceIsWater(place) ==
    IF ~place.hasAddress THEN "throw"
    ELSE IF \/ "ocean" \in place.tags
            \/ "sea" \in place.tags
            \/ "lake" \in place.tags
            \/ place.type = "water"
            \/ place.class = "water"
    THEN "true"
    ELSE "false"

\* data.some(...): the places in order, up to the first that matches.
RECURSIVE Some(_, _)
Some(places, i) ==
    IF i > Len(places) THEN "false"
    ELSE IF PlaceIsWater(places[i]) = "false" THEN Some(places, i + 1)
    ELSE PlaceIsWater(places[i])

\* Every error is caught and answered with false.
isNearWater(resp) ==
    IF resp.kind = "network_error" THEN FALSE
    ELSE IF resp.kind = "malformed" THEN FALSE
    ELSE Some(resp.places, 1) = "true"

----------------------------------------------------------------------------
(* calculateFloodRisk                                                      *)

Mm(x) == 10 * x

\* The arguments of calculateFloodRisk: elevations in metres around every
\* threshold, and no number at all; rainfalls in 0.1 mm around every
\* threshold.
ElevationSamples ==
    { Num(v) : v \in {-3, 0, 2, 3, 9, 10, 19, 20, 25, 49, 50, 99, 100,
                      199, 200, 1609} }
    \cup {NaN}

RainfallSamples ==
    { 0, Mm(5), Mm(10), Mm(10) + 1, Mm(25), Mm(25) + 1, Mm(45), Mm(50),
      Mm(50) + 1, Mm(100), Mm(100) + 1, Mm(200), Mm(200) + 1, Mm(300),
      Mm(1500) }

\* A variant of the comparison that takes the threshold itself.
ElevationAtOrBelow(elevation, limit) ==
    elevation.tag = "num" /\ elevation.v <= limit

\* A variant with the comparison turned around.
ElevationNotBelow(elevation, limit) ==
    elevation.tag = "num" /\ elevation.v >= limit

\* elevation < limit: false when the elevation is not a number.
ElevationBelow(elevation, limit) ==
    elevation.tag = "num" /\ elevation.v < limit

\* k * 20 / 3, computed once for the k of the tables below.
Points20Over3Table == [k \in 0..15 |-> FromRatio(k * 20, 3)]

Points20Over3(k) == Points20Over3Table[k]

\* A variant that lets the contents of the cache into the factor.
ElevationFactorByCache(elevation) ==
    IF elevationCache.defined /\ Cardinality(DOMAIN elevationCache.map) > 1
    THEN Points20Over3(15)
    ELSE IF ElevationBelow(elevation, 3) THEN Points20Over3(15)
    ELSE IF ElevationBelow(elevation, 10) THEN Points20Over3(10)
    ELSE IF ElevationBelow(elevation, 20) THEN Points20Over3(8)
    ELSE IF ElevationBelow(elevation, 50) THEN Points20Over3(4)
    ELSE IF ElevationBelow(elevation, 100) THEN Points20Over3(2)
    ELSE IF ElevationBelow(elevation, 200) THEN Points20Over3(1)
    ELSE FZero

\* riskFactors.elevation
ElevationFactor(elevation) ==
    IF ElevationBelow(elevation, 3) THEN Points20Over3(15)
    ELSE IF ElevationBelow(elevation, 10) THEN Points20Over3(10)
    ELSE IF ElevationBelow(elevation, 20) THEN Points20Over3(8)
    ELSE IF ElevationBelow(elevation, 50) THEN Points20Over3(4)
    ELSE IF ElevationBelow(elevation, 100) THEN Points20Over3(2)
    ELSE IF ElevationBelow(elevation, 200) THEN Points20Over3(1)
    ELSE FZero

\* A variant whose rainfall thresholds take the threshold itself.
RainfallFactorInclusive(rainfall) ==
    IF rainfall >= Mm(200) THEN Points20Over3(15)
    ELSE IF rainfall >= Mm(100) THEN Points20Over3(10)
    ELSE IF rainfall >= Mm(50) THEN Points20Over3(8)
    ELSE IF rainfall >= Mm(25) THEN Points20Over3(4)
    ELSE IF rainfall >= Mm(10) THEN Points20Over3(2)
    ELSE FZero

\* riskFactors.rainfall
RainfallFactor(rainfall) ==
    IF rainfall > Mm(200) THEN Points20Over3(15)
    ELSE IF rainfall > Mm(100) THEN Points20Over3(10)
    ELSE IF rainfall > Mm(50) THEN Points20Over3(8)
    ELSE IF rainfall > Mm(25) THEN Points20Over3(4)
    ELSE IF rainfall > Mm(10) THEN Points20Over3(2)
    ELSE FZero

\* A variant with the weight the debug log prints (20%).
ElevationWeightLogged == FromRatio(20, 100)

\* weights
ElevationWeight == FromRatio(40, 100)

RainfallWeight == FromRatio(60, 100)

\* totalRiskScore after the loop over the two factors
WeightedScore(elevation, rainfall) ==
    LET afterElevation ==
            FAdd(FZero, FMul(ElevationFactor(elevation), ElevationWeight))
    IN  FAdd(afterElevation, FMul(RainfallFactor(rainfall), RainfallWeight))

\* A variant with the fifth level the JSDoc lists, for a score of zero.
RiskLevelWithVeryLow(totalRiskScore) ==
    IF FGeq(totalRiskScore, Points20Over3(10)) THEN "very-high"
    ELSE IF FGeq(totalRiskScore, Points20Over3(8)) THEN "high"
    ELSE IF FGeq(totalRiskScore, Points20Over3(6)) THEN "medium"
    ELSE IF totalRiskScore = FZero THEN "very-low"
    ELSE "low"

\* A variant whose thresholds are exclusive.
RiskLevelExclusive(totalRiskScore) ==
    IF FLess(Points20Over3(10), totalRiskScore) THEN "very-high"
    ELSE IF FLess(Points20Over3(8), totalRiskScore) THEN "high"
    ELSE IF FLess(Points20Over3(6), totalRiskScore) THEN "medium"
    ELSE "low"

\* riskLevel
RiskLevel(totalRiskScore) ==
    IF FGeq(totalRiskScore, Points20Over3(10)) THEN "very-high"
    ELSE IF FGeq(totalRiskScore, Points20Over3(8)) THEN "high"
    ELSE IF FGeq(totalRiskScore, Points20Over3(6)) THEN "medium"
    ELSE "low"

\* An activation of calculateFloodRisk.
\*   pc   idle | awaiting (suspended in `await this.isNearWater`) | done
IdleRisk ==
    [pc |-> "idle", elevation |-> NaN, rainfall |-> 0,
     totalRiskScore |-> FZero, nearWater |-> FALSE,
     level |-> "none", score |-> FZero]

\* calculateFloodRisk(elevation, rainfall, lat, lng) up to its await: the
\* two factors and their weighted sum.  lat and lng only go into the URL.
RiskBegun(elevation, rainfall) ==
    [IdleRisk EXCEPT
        !.pc = "awaiting",
        !.elevation = elevation,
        !.rainfall = rainfall,
        !.totalRiskScore = WeightedScore(elevation, rainfall)]

calculateFloodRisk(elevation, rainfall) ==
    /\ risk.pc \in {"idle", "done"}
    /\ risk' = RiskBegun(elevation, rainfall)
    /\ UNCHANGED <<config, now, elevationCache, calls, rain, searchVars,
                   sessionVars>>

\* isNearWater settles with resp: the doubling, the level, the return.
RiskReturnedOf(rec, nearWater, totalRiskScore) ==
    [rec EXCEPT
        !.pc = "done",
        !.nearWater = nearWater,
        !.totalRiskScore = totalRiskScore,
        !.level = RiskLevel(totalRiskScore),
        !.score = totalRiskScore]

RiskReturned(rec, resp) ==
    Eager(isNearWater(resp), LAMBDA nearWater :
        Eager(IF nearWater
              THEN FMul(rec.totalRiskScore, FromRatio(2, 1))
              ELSE rec.totalRiskScore,
              LAMBDA totalRiskScore :
                  RiskReturnedOf(rec, nearWater, totalRiskScore)))

NearWaterSettles(resp) ==
    /\ risk.pc = "awaiting"
    /\ risk' = RiskReturned(risk, resp)
    /\ UNCHANGED <<config, now, elevationCache, calls, rain, searchVars,
                   sessionVars>>

----------------------------------------------------------------------------
(* getRainfallData                                                         *)

\* A forecast period: the words of its detailedForecast, lower case, or no
\* detailedForecast at all.
Period(hasText, words) == [hasText |-> hasText, words |-> words]

\* forecastText.includes(word)
Includes(period, word) ==
    \/ word \in period.words
    \/ word = "storm" /\ "thunderstorm" \in period.words

PrecipitationWords ==
    {"rain", "shower", "storm", "thunderstorm", "precipitation", "drizzle",
     "sprinkle"}

\* periodRainfall, in mm
PeriodRainfall(period) ==
    IF ~(\E w \in PrecipitationWords : Includes(period, w)) THEN 0
    ELSE IF Includes(period, "heavy") \/ Includes(period, "severe") THEN 15
    ELSE IF Includes(period, "moderate") \/ Includes(period, "steady") THEN 8
    ELSE 3

Min(a, b) == IF a <= b THEN a ELSE b

\* The loop over the first four periods: totalRainfall, or a TypeError at a
\* period without detailedForecast.
RECURSIVE TotalRainfall(_, _)
TotalRainfall(periods, i) ==
    IF i > Min(Len(periods), 4) THEN [threw |-> FALSE, total |-> 0]
    ELSE IF ~periods[i].hasText THEN [threw |-> TRUE, total |-> 0]
    ELSE LET rest == TotalRainfall(periods, i + 1)
         IN  [threw |-> rest.threw,
              total |-> PeriodRainfall(periods[i]) + rest.total]

Dry == Period(TRUE, {"sunny"})
Light == Period(TRUE, {"rain", "likely"})
Moderate == Period(TRUE, {"shower", "moderate"})
Heavy == Period(TRUE, {"thunderstorm", "severe"})
HeavyAndSteady == Period(TRUE, {"drizzle", "steady", "heavy"})
HeavyWind == Period(TRUE, {"heavy", "wind"})
NoText == Period(FALSE, {})

PeriodLists ==
    { <<>>, <<Dry>>, <<Light>>, <<Moderate>>, <<Heavy>>, <<HeavyAndSteady>>,
      <<HeavyWind>>, <<NoText>>,
      <<Light, Dry, Moderate, Heavy>>,
      <<Heavy, Heavy, Heavy, Heavy>>,
      <<Heavy, Heavy, Heavy, Heavy, Heavy>>,
      <<Dry, Dry, Dry, Dry, NoText>>,
      <<Dry, NoText>> }

\* What api.weather.gov delivers for the forecast point:
\*   network_error  fetch rejects
\*   http_error     a response that is not ok
\*   malformed      the body is not JSON, or has no properties
\*   no_forecast    properties without a forecast URL
\*   forecast       properties with a forecast URL
PointsResponses ==
    [kind : {"network_error", "http_error", "malformed", "no_forecast",
             "forecast"},
     periods : {<<>>}]

\* ... and for the forecast:
\*   malformed      the body is not JSON, or has no properties.periods
\*   no_length      properties.periods is a value without a length
\*   periods        properties.periods is the array of periods
ForecastResponses ==
    [kind : {"network_error", "http_error", "malformed", "no_length"},
     periods : {<<>>}]
    \cup [kind : {"periods"}, periods : PeriodLists]

\* baseRainfall before the seasonal factor, in mm
RegionalRainfall(lat, lng) ==
    (IF lat > Deg(25) /\ lat < Deg(35) /\ lng > Deg(-90) /\ lng < Deg(-80)
     THEN 30 ELSE 0)
    + (IF lat > Deg(40) /\ lat < Deg(50) /\ lng > Deg(-125) /\ lng < Deg(-120)
       THEN 25 ELSE 0)
    + (IF lat > Deg(20) /\ lat < Deg(30) /\ lng > Deg(-85) /\ lng < Deg(-75)
       THEN 35 ELSE 0)
    - (IF lat > Deg(35) /\ lat < Deg(45) /\ lng > Deg(-120) /\ lng < Deg(-100)
       THEN 10 ELSE 0)
    - (IF lat > Deg(40) /\ lat < Deg(50) /\ lng > Deg(-110) /\ lng < Deg(-95)
       THEN 5 ELSE 0)

\* The sine of the phase of the year at Date.now(), in 1/1000.
SeasonSamples == {-1000, 0, 1000}

\* In 0.1 mm: (base * (1 + season * 0.3) + random * 20) * 100, rounded to
\* one decimal and floored at zero.
getSimulatedRainfall(lat, lng, season, r) ==
    Max(0, RegionalRainfall(lat, lng) * (1000 + (3 * season) \div 10)
           + 20 * r)

\* Coordinates for getRainfallData: Houston (no regional rule), Tampa
\* (Southeast and Florida), Utah (Southwest), Nebraska (Great Plains),
\* Seattle's coast (Pacific Northwest).
RainPoints ==
    { [lat |-> 2976040, lng |-> -9536980],
      [lat |-> Deg(28), lng |-> Deg(-82)],
      [lat |-> Deg(38), lng |-> Deg(-110)],
      [lat |-> Deg(42), lng |-> Deg(-100)],
      [lat |-> Deg(47), lng |-> Deg(-123)] }

\* An activation of getRainfallData.
\*   pc      idle | points (suspended in the first fetch) | forecast
\*           (suspended in the second) | done | rejected
\*   last    the kind of the latest response (bad_period: an array
\*           with a period without detailedForecast among the first four)
\*   via     where the value returned comes from: forecast | simulated
\*   season, random   what getSimulatedRainfall drew
\*   periods the periods of the forecast the value was computed from
\*   result  the rainfall returned, in 0.1 mm
IdleRain ==
    [pc |-> "idle", point |-> NoPoint, last |-> "none", via |-> "none",
     season |-> 0, random |-> 0, periods |-> <<>>, result |-> 0]

\* getRainfallData(lat, lng) up to its first await.
RainBegun(p) == [IdleRain EXCEPT !.pc = "points", !.point = p]

\* What the code does with the response of the awaited fetch.
RainfallStep(stage, resp) ==
    IF stage = "points"
    THEN IF resp.kind = "network_error" THEN "simulate"
         ELSE IF resp.kind = "http_error" THEN "simulate"
         ELSE IF resp.kind = "malformed" THEN "simulate"
         ELSE IF resp.kind = "forecast" THEN "fetch"
         ELSE "simulate"
    ELSE IF resp.kind = "network_error" THEN "simulate"
         ELSE IF resp.kind = "http_error" THEN "simulate"
         ELSE IF resp.kind = "malformed" THEN "simulate"
         ELSE IF resp.kind = "no_length" THEN "return"
         ELSE IF TotalRainfall(resp.periods, 1).threw THEN "simulate"
         ELSE "return"

\* finalRainfall, in 0.1 mm: totalRainfall * 100, rounded to one decimal.
FinalRainfall(resp) ==
    IF resp.kind = "no_length" THEN 0
    ELSE TotalRainfall(resp.periods, 1).total * 100 * 10

\* The awaited fetch of the activation settles with resp.
RainResumed(rec, resp, season, r) ==
    LET step == RainfallStep(rec.pc, resp)
        seen == [rec EXCEPT !.last =
                    IF resp.kind = "periods"
                       /\ TotalRainfall(resp.periods, 1).threw
                    THEN "bad_period" ELSE resp.kind]
    IN  IF step = "fetch" THEN [seen EXCEPT !.pc = "forecast"]
        ELSE IF step = "return"
        THEN [seen EXCEPT !.pc = "done", !.via = "forecast",
                          !.periods = resp.periods,
                          !.result = FinalRainfall(resp)]
        ELSE IF step = "simulate"
        THEN [seen EXCEPT
                 !.pc = "done", !.via = "simulated",
                 !.season = season, !.random = r,
                 !.result = getSimulatedRainfall(rec.point.lat,
                                                 rec.point.lng, season, r)]
        ELSE [seen EXCEPT !.pc = "rejected"]

RainResponses(rec) ==
    IF rec.pc = "points" THEN PointsResponses ELSE ForecastResponses

getRainfallData(c, p) ==
    /\ rain[c].pc \in {"idle", "done", "rejected"}
    /\ rain' = [rain EXCEPT ![c] = RainBegun(p)]
    /\ UNCHANGED <<config, now, elevationCache, calls, risk, searchVars,
                   sessionVars>>

RainSettles(c) ==
    /\ rain[c].pc \in {"points", "forecast"}
    /\ \E resp \in RainResponses(rain[c]) :
       \E season \in SeasonSamples, r \in RandomSamples :
          rain' = [rain EXCEPT ![c] = RainResumed(rain[c], resp, season, r)]
    /\ UNCHANGED <<config, now, elevationCache, calls, risk, searchVars,
                   sessionVars>>

----------------------------------------------------------------------------
(***************************************************************************)
(* searchForSaferCity                                                      *)
(***************************************************************************)

\* this.userLocation before a location is set (null)
NoLocation == [set |-> FALSE, lat |-> 0, lng |-> 0]

Location(lat, lng) == [set |-> TRUE, lat |-> lat, lng |-> lng]

\* A variant of the direction table that goes round the compass.
directionsClockwise ==
    << [name |-> "North", latOffset |-> 1, lngOffset |-> 0],
       [name |-> "Northeast", latOffset |-> 1, lngOffset |-> 1],
       [name |-> "East", latOffset |-> 0, lngOffset |-> 1],
       [name |-> "Southeast", latOffset |-> -1, lngOffset |-> 1],
       [name |-> "South", latOffset |-> -1, lngOffset |-> 0],
       [name |-> "Southwest", latOffset |-> -1, lngOffset |-> -1],
       [name |-> "West", latOffset |-> 0, lngOffset |-> -1],
       [name |-> "Northwest", latOffset |-> 1, lngOffset |-> -1] >>

directions ==
    << [name |-> "North", latOffset |-> 1, lngOffset |-> 0],
       [name |-> "South", latOffset |-> -1, lngOffset |-> 0],
       [name |-> "East", latOffset |-> 0, lngOffset |-> 1],
       [name |-> "West", latOffset |-> 0, lngOffset |-> -1],
       [name |-> "Northeast", latOffset |-> 1, lngOffset |-> 1],
       [name |-> "Northwest", latOffset |-> 1, lngOffset |-> -1],
       [name |-> "Southeast", latOffset |-> -1, lngOffset |-> 1],
       [name |-> "Southwest", latOffset |-> -1, lngOffset |-> -1] >>

\* The loop over the rings: `distance = 20; distance <= 160; distance += 20`.
FirstDistance == 20

\* A variant of the loop condition that stops one ring short.
DistanceInRangeExclusive(distance) == distance < 160

DistanceInRange(distance) == distance <= 160

\* A variant of the loop's step: rings 30 miles apart.
NextDistanceBy30(distance) == distance + 30

NextDistance(distance) == distance + 20

\* Math.cos of a latitude given in 1e-5 degree, in 1/1000: the angle in
\* milliradians, then the series 1 - x^2/2 + x^4/24 (within 1/1000 of the
\* cosine up to 60 degrees).
Cos1000(lat) ==
    LET x == ((Abs(lat) \div 1000) * 17453) \div 100000
        x2 == x * x
    IN  1000 - x2 \div 2000 + ((x2 \div 1000) * (x2 \div 1000)) \div 24000

\* distanceRadians * 180 / Math.PI in 1e-5 degree: 180 / (3959 * pi) is
\* 0.01447233 degree to the mile.
DegreesOfMiles(distanceMiles) == (distanceMiles * 1447233 + 500) \div 1000

calculateLocationAtDistance(lat, lng, latOffset, lngOffset, distanceMiles) ==
    [lat |-> lat + latOffset * DegreesOfMiles(distanceMiles),
     lng |-> lng + lngOffset
                   * ((DegreesOfMiles(distanceMiles) * 1000)
                      \div Cos1000(lat))]

\* Number.prototype.toFixed(2) of a coordinate given in 1e-5 degree.
ToFixed2(x) ==
    LET mag == IF x < 0 THEN -x ELSE x
    IN  <<x < 0, (mag + 500) \div 1000>>

\* A name is the text of an address field, or the template
\* `${lat.toFixed(2)}, ${lng.toFixed(2)}`.
Text(s) == [kind |-> "text", text |-> s, lat |-> <<FALSE, 0>>,
            lng |-> <<FALSE, 0>>]

CoordinateString(lat, lng) ==
    [kind |-> "coords", text |-> "", lat |-> ToFixed2(lat),
     lng |-> ToFixed2(lng)]

\* Texts of address fields: names of places, and a text made of two
\* numbers.  The empty text stands for a field that is missing or empty.
PlaceTexts == {"Conroe", "Waller County"}
NumberTexts == {"30.31, -95.46"}

Address(city, town, village, county) ==
    [city |-> city, town |-> town, village |-> village, county |-> county]

NoAddress == Address("", "", "", "")

\* What Nominatim's reverse geocoding delivers:
\*   network_error  fetch rejects
\*   malformed      the body is not JSON, or is null
\*   no_address     an object without address
\*   address        an object with an address
NameResponses ==
    [kind : {"network_error", "malformed", "no_address"},
     address : {NoAddress}]
    \cup [kind : {"address"},
          address : { NoAddress,
                      Address("Conroe", "", "", "Waller County"),
                      Address("", "", "", "Waller County"),
                      Address("", "Conroe", "", ""),
                      Address("", "", "Conroe", ""),
                      Address("30.31, -95.46", "", "", "") }]

\* a || b for strings
Or(a, b) == IF a # "" THEN a ELSE b

getCityName(lat, lng, resp) ==
    IF resp.kind = "network_error" THEN CoordinateString(lat, lng)
    ELSE IF resp.kind = "malformed" THEN CoordinateString(lat, lng)
    ELSE IF resp.kind = "address"
    THEN LET field == Or(resp.address.city,
                      Or(resp.address.town,
                      Or(resp.address.village, resp.address.county)))
         IN  IF field # "" THEN Text(field)
             ELSE CoordinateString(lat, lng)
    ELSE CoordinateString(lat, lng)

\* A variant of the test that takes every name for a place name.
IsCoordinateNameNever(cityName) == FALSE

\* /^-?\d+\.?\d*,\s*-?\d+\.?\d*$/.test(cityName)
IsCoordinateName(cityName) ==
    IF cityName.kind = "coords" THEN TRUE
    ELSE cityName.text \in NumberTexts

\* The panel of the safer city, and this.saferLocation.
\*   loading    #saferSearchLoading is shown
\*   saferCity  #saferCityDisplay is shown
\*   noSafe     #noSafeAlternatives is shown
NoName == Text("")

NoDisplay ==
    [loading |-> FALSE, saferCity |-> FALSE, noSafe |-> FALSE,
     cityName |-> NoName, distance |-> 0, direction |-> "",
     riskLevel |-> "none", saferLocation |-> NoPoint]

showSaferSearchLoading(d) == [d EXCEPT !.loading = TRUE]

hideSaferSearchLoading(d) == [d EXCEPT !.loading = FALSE]

hideSaferCityDisplay(d) == [d EXCEPT !.saferCity = FALSE, !.noSafe = FALSE]

showNoSafeAlternatives(d) == [d EXCEPT !.noSafe = TRUE]

displaySaferCity(d, cityName, distance, direction, riskLevel, coordinates) ==
    [d EXCEPT !.cityName = cityName, !.distance = distance,
              !.direction = direction, !.riskLevel = riskLevel,
              !.saferLocation = coordinates, !.saferCity = TRUE,
              !.noSafe = FALSE]

\* An activation of searchForSaferCity.
\*   pc            idle | elevation, rainfall, risk, name (suspended in the
\*                 await of that call) | done
\*   distance, direction   the loop variables (direction is the index in
\*                 directions)
\*   testLocation  the probe
\*   riskData      the latest activation of calculateFloodRisk by a probe
\*   cityName      the name looked up for it (NoName before the lookup)
\*   evaluated     the probes begun
\*   errors        the lookups of the probe in which an error was raised
\*   outcome       none | found (displaySaferCity) | absent
IdleSearch ==
    [pc |-> "idle", distance |-> 0, direction |-> 0,
     testLocation |-> NoPoint, riskData |-> IdleRisk, cityName |-> NoName,
     evaluated |-> 0, errors |-> {}, outcome |-> "none"]

\* What the lookups of a probe are answered with.
ProbeElevationResponses == {[kind |-> "value", v |-> 124]}

ProbePointsResponses ==
    {r \in PointsResponses : r.kind \in {"network_error", "forecast"}}

ProbeForecastResponses ==
    {r \in ForecastResponses :
        \/ r.kind = "http_error"
        \/ r.kind = "periods" /\ r.periods \in {<<Dry>>, <<Light>>}}

ProbeRainResponses(rec) ==
    IF rec.pc = "points" THEN ProbePointsResponses
    ELSE ProbeForecastResponses

ProbeWaterResponses ==
    {r \in WaterResponses :
        \/ r.kind = "network_error"
        \/ r.kind = "places" /\ Len(r.places) = 0
        \/ r.kind = "places" /\ r.places = <<Place(TRUE, {"lake"}, "city",
                                                   "place")>>}

ProbeSeasons == {0}
ProbeRandoms == {0, 999}

\* The probe's getElevationData has returned: the probe goes on to
\* `await this.getRainfallData(...)`.
AfterElevation(s) ==
    /\ rain' = [rain EXCEPT !["probe"] = RainBegun(s.testLocation)]
    /\ search' = [s EXCEPT !.pc = "rainfall"]

\* The head of the inner loop for one direction of one ring: the probe,
\* and its `await this.getElevationData(...)`.
Probe(s, distance, direction) ==
    LET testLocation ==
            calculateLocationAtDistance(
                userLocation.lat, userLocation.lng,
                directions[direction].latOffset,
                directions[direction].lngOffset, distance)
        begun == [s EXCEPT !.distance = distance, !.direction = direction,
                           !.testLocation = testLocation,
                           !.evaluated = @ + 1, !.errors = {}]
    IN  /\ BeginCall("probe", testLocation)
        /\ IF calls'["probe"].pc = "done"
           THEN AfterElevation(begun)
           ELSE /\ rain' = [rain EXCEPT !["probe"] = IdleRain]
                /\ search' = [begun EXCEPT !.pc = "elevation"]

\* The end of the body of the inner loop: the next direction, the next
\* ring, or the code after the loops.
Continue(s) ==
    IF s.direction < Len(directions)
    THEN /\ Probe(s, s.distance, s.direction + 1)
         /\ display' = display
    ELSE IF DistanceInRange(NextDistance(s.distance))
    THEN /\ Probe(s, NextDistance(s.distance), 1)
         /\ display' = display
    ELSE /\ search' = [s EXCEPT !.pc = "done", !.outcome = "absent"]
         /\ display' = showNoSafeAlternatives(
                           hideSaferCityDisplay(
                               hideSaferSearchLoading(display)))
         /\ rain' = [rain EXCEPT !["probe"] = IdleRain]
         /\ UNCHANGED <<elevationCache, calls>>

\* searchForSaferCity() up to its first await, or to its return when there
\* is no user location.
searchForSaferCity ==
    /\ search.pc \in {"idle", "done"}
    /\ IF ~userLocation.set
       THEN /\ search' = [IdleSearch EXCEPT !.pc = "done"]
            /\ UNCHANGED <<display, elevationCache, calls, rain>>
       ELSE /\ display' = hideSaferCityDisplay(showSaferSearchLoading(display))
            /\ Probe(IdleSearch, FirstDistance, 1)
    /\ UNCHANGED <<config, now, risk, userLocation>>

\* A source of the probe's getElevationData settles.
ProbeElevationSettles ==
    /\ search.pc = "elevation"
    /\ calls["probe"].pc = "awaiting"
    /\ \E resp \in ProbeElevationResponses, r \in ProbeRandoms :
          /\ Resume("probe", resp, r)
          /\ LET seen == [search EXCEPT !.errors =
                             IF Source(config,
                                       ElevationSources(config)
                                           [Len(calls["probe"].log)],
                                       resp).threw
                             THEN @ \cup {"elevation"} ELSE @]
             IN  IF calls'["probe"].pc = "done"
                 THEN AfterElevation(seen)
                 ELSE /\ search' = seen
                      /\ rain' = rain
    /\ UNCHANGED <<sessionVars, config, now, risk, userLocation, display>>

\* A fetch of the probe's getRainfallData settles; when the rainfall is
\* returned the probe goes on to `await this.calculateFloodRisk(...)`.
ProbeRainSettles ==
    /\ search.pc = "rainfall"
    /\ \E resp \in ProbeRainResponses(rain["probe"]) :
       \E season \in ProbeSeasons, r \in ProbeRandoms :
       \E rec \in {RainResumed(rain["probe"], resp, season, r)} :
              IF rec.pc = "done"
              THEN /\ rain' = [rain EXCEPT !["probe"] = IdleRain]
                   /\ search' =
                        [search EXCEPT
                            !.pc = "risk",
                            !.errors = IF rec.via = "simulated"
                                       THEN @ \cup {"rainfall"} ELSE @,
                            !.riskData =
                                RiskBegun(calls["probe"].result.elevation,
                                          rec.result)]
              ELSE /\ rain' = [rain EXCEPT !["probe"] = rec]
                   /\ search' = search
    /\ UNCHANGED <<sessionVars, config, now, elevationCache, calls, risk,
                   userLocation,
                   display>>

\* The fetch of the probe's isNearWater settles: calculateFloodRisk
\* returns riskData, and the probe is dropped or goes on to
\* `await this.getCityName(...)`.
ProbeWaterSettles ==
    /\ search.pc = "risk"
    /\ \E resp \in ProbeWaterResponses :
       \E riskData \in {RiskReturned(search.riskData, resp)} :
       \E seen \in {[search EXCEPT
                          !.riskData = riskData,
                          !.cityName = NoName,
                          !.errors = IF resp.kind # "places"
                                     THEN @ \cup {"water"} ELSE @]} :
              IF riskData.level = "low" \/ riskData.level = "medium"
              THEN /\ search' = [seen EXCEPT !.pc = "name"]
                   /\ UNCHANGED <<elevationCache, calls, rain, display>>
              ELSE Continue(seen)
    /\ UNCHANGED <<sessionVars, config, now, risk, userLocation>>

\* The fetch of the probe's getCityName settles: the probe is skipped, or
\* displayed as the safer city.
ProbeNameSettles ==
    /\ search.pc = "name"
    /\ \E resp \in NameResponses :
       \E cityName \in {getCityName(search.testLocation.lat,
                                     search.testLocation.lng, resp)} :
       \E seen \in {[search EXCEPT
                          !.cityName = cityName,
                          !.errors =
                              IF resp.kind \in {"network_error", "malformed"}
                              THEN @ \cup {"name"} ELSE @]} :
              IF IsCoordinateName(cityName)
              THEN Continue(seen)
              ELSE /\ search' = [seen EXCEPT !.pc = "done",
                                             !.outcome = "found"]
                   /\ display' =
                        displaySaferCity(
                            hideSaferSearchLoading(display), cityName,
                            search.distance,
                            directions[search.direction].name,
                            search.riskData.level, search.testLocation)
                   /\ UNCHANGED <<elevationCache, calls, rain>>
    /\ UNCHANGED <<sessionVars, config, now, risk, userLocation>>

----------------------------------------------------------------------------
(* assessLocationRisk                                                      *)

\* An activation of assessLocationRisk.
\*   pc        idle | elevation, rainfall, risk (suspended in the await of
\*             that call) | done
\*   point     the lat and lng it was called with
\*   riskData  its activation of calculateFloodRisk
IdleAssessment == [pc |-> "idle", point |-> NoPoint, riskData |-> IdleRisk]

\* The constructor's currentRiskLevel and currentRiskScore.
NoRisk == [level |-> "unknown", score |-> Null]

\* The activation's getElevationData has returned: it goes on to
\* `await this.getRainfallData(lat, lng)`.
AssessAfterElevation(a, rec) ==
    /\ rain' = [rain EXCEPT ![a] = RainBegun(rec.point)]
    /\ assessments' = [assessments EXCEPT ![a] = [rec EXCEPT !.pc = "rainfall"]]

\* assessLocationRisk(p.lat, p.lng) up to its first await.
assessLocationRisk(a, p) ==
    /\ BeginCall(a, p)
    /\ LET rec == [IdleAssessment EXCEPT !.point = p]
       IN  IF calls'[a].pc = "done"
           THEN AssessAfterElevation(a, rec)
           ELSE /\ rain' = rain
                /\ assessments' =
                      [assessments EXCEPT ![a] = [rec EXCEPT !.pc = "elevation"]]

\* The callback of getCurrentLocation, and searchLocation after its
\* geocoding fetch: the location found becomes the user's location and is
\* assessed.
searchLocation(a, p) ==
    /\ assessments[a].pc = "idle"
    /\ userLocation' = Location(p.lat, p.lng)
    /\ assessLocationRisk(a, p)
    /\ UNCHANGED <<config, now, risk, search, display, currentRisk>>

\* A variant that searches at the level high only.
updateRiskDisplayAtHighOnly(level) ==
    IF level = "high"
    THEN searchForSaferCity
    ELSE /\ display' = hideSaferCityDisplay(display)
         /\ UNCHANGED <<config, now, risk, userLocation, elevationCache,
                        calls, rain, search>>

\* updateRiskDisplay(): the search for a safer city when the level stored is
\* high or very-high, and no safer city shown otherwise.
updateRiskDisplay(level) ==
    IF level = "high" \/ level = "very-high"
    THEN searchForSaferCity
    ELSE /\ display' = hideSaferCityDisplay(display)
         /\ UNCHANGED <<config, now, risk, userLocation, elevationCache,
                        calls, rain, search>>

\* The source awaited by the activation's getElevationData settles.
AssessElevationSettles(a, resp, r) ==
    /\ assessments[a].pc = "elevation"
    /\ calls[a].pc = "awaiting"
    /\ Resume(a, resp, r)
    /\ IF calls'[a].pc = "done"
       THEN AssessAfterElevation(a, assessments[a])
       ELSE UNCHANGED <<rain, assessments>>
    /\ UNCHANGED <<config, now, risk, searchVars, currentRisk>>

\* A fetch of the activation's getRainfallData settles; when the rainfall
\* is returned the activation goes on to
\* `await this.calculateFloodRisk(elevationData.elevation, rainfall, ...)`.
AssessRainSettles(a, resp, season, r) ==
    /\ assessments[a].pc = "rainfall"
    /\ \E rec \in {RainResumed(rain[a], resp, season, r)} :
          /\ rain' = [rain EXCEPT ![a] = rec]
          /\ assessments' =
                IF rec.pc = "done"
                THEN [assessments EXCEPT
                         ![a].pc = "risk",
                         ![a].riskData =
                             RiskBegun(calls[a].result.elevation, rec.result)]
                ELSE assessments
    /\ UNCHANGED <<config, now, elevationCache, calls, risk, searchVars,
                   currentRisk>>

\* A variant that stores the level and leaves the score as it was.
StoredRiskLevelOnly(stored, riskData) ==
    [level |-> riskData.level, score |-> stored.score]

\* `this.currentRiskLevel = riskData.level; this.currentRiskScore =
\* riskData.score;`
StoredRisk(stored, riskData) ==
    [level |-> riskData.level, score |-> riskData.score]

\* The fetch of the activation's isNearWater settles: calculateFloodRisk
\* returns riskData, which is stored as the current risk and displayed.
AssessWaterSettles(a, resp) ==
    /\ assessments[a].pc = "risk"
    /\ \E riskData \in {RiskReturned(assessments[a].riskData, resp)} :
          /\ assessments' = [assessments EXCEPT ![a].pc = "done",
                                                ![a].riskData = riskData]
          /\ currentRisk' = StoredRisk(currentRisk, riskData)
          /\ updateRiskDisplay(riskData.level)

----------------------------------------------------------------------------

Init ==
    /\ config \in Configs
    /\ now = 0
    /\ elevationCache = NoCache
    /\ calls = [c \in CallSites |-> IdleCall]
    /\ risk = IdleRisk
    /\ rain = [c \in CallSites |-> IdleRain]
    /\ userLocation = NoLocation
    /\ search = IdleSearch
    /\ display = NoDisplay
    /\ assessments = [a \in Requests |-> IdleAssessment]
    /\ currentRisk = NoRisk

\* Every configuration, for coordinates of one key.
Next ==
    \/ \E c \in Callers, p \in NearbyPoints : Begin(c, p)
    \/ \E c \in Callers : Settle(c)
    \/ \E c \in Callers : Hang(c)
    \/ Tick

Spec == Init /\ [][Next]_vars

\* The configuration as shipped in config.js, and a page without one.
ShippedConfig ==
    [present |-> TRUE,
     ENABLE_USGS |-> TRUE, ENABLE_OPEN_ELEVATION |-> TRUE,
     ENABLE_GOOGLE |-> FALSE, ENABLE_MAPBOX |-> FALSE,
     GOOGLE_MAPS_API_KEY |-> GooglePlaceholder,
     MAPBOX_API_KEY |-> MapBoxPlaceholder]

CacheInit ==
    /\ config \in {ShippedConfig, NoConfig}
    /\ now = 0
    /\ elevationCache = NoCache
    /\ calls = [c \in CallSites |-> IdleCall]
    /\ risk = IdleRisk
    /\ rain = [c \in CallSites |-> IdleRain]
    /\ userLocation = NoLocation
    /\ search = IdleSearch
    /\ display = NoDisplay
    /\ assessments = [a \in Requests |-> IdleAssessment]
    /\ currentRisk = NoRisk

\* These two configurations, for coordinates of two keys.
CacheNext ==
    \/ \E c \in Callers, p \in Points : Begin(c, p)
    \/ \E c \in Callers : Settle(c)
    \/ \E c \in Callers : Hang(c)
    \/ Tick

CacheSpec == CacheInit /\ [][CacheNext]_vars

\* The risk engine alone: one calculation, over the sample arguments.
RiskInit ==
    /\ config = ShippedConfig
    /\ now = 0
    /\ elevationCache = NoCache
    /\ calls = [c \in CallSites |-> IdleCall]
    /\ risk = IdleRisk
    /\ rain = [c \in CallSites |-> IdleRain]
    /\ userLocation = NoLocation
    /\ search = IdleSearch
    /\ display = NoDisplay
    /\ assessments = [a \in Requests |-> IdleAssessment]
    /\ currentRisk = NoRisk

RiskNext ==
    \/ /\ risk.pc = "idle"
       /\ \E elevation \in ElevationSamples, rainfall \in RainfallSamples :
             calculateFloodRisk(elevation, rainfall)
    \/ \E resp \in WaterResponses : NearWaterSettles(resp)

RiskSpec == RiskInit /\ [][RiskNext]_vars

\* The rainfall provider alone, over the sample coordinates.
RainInit ==
    /\ config = ShippedConfig
    /\ now = 0
    /\ elevationCache = NoCache
    /\ calls = [c \in CallSites |-> IdleCall]
    /\ risk = IdleRisk
    /\ rain = [c \in CallSites |-> IdleRain]
    /\ userLocation = NoLocation
    /\ search = IdleSearch
    /\ display = NoDisplay
    /\ assessments = [a \in Requests |-> IdleAssessment]
    /\ currentRisk = NoRisk

RainNext ==
    \/ \E c \in Callers, p \in RainPoints : getRainfallData(c, p)
    \/ \E c \in Callers : RainSettles(c)

RainSpec == RainInit /\ [][RainNext]_vars

\* Two call sites resolve coordinates of one key at the same time, once
\* each, and every request is answered.
OverlapInit ==
    /\ config = ShippedConfig
    /\ now = 0
    /\ elevationCache = NoCache
    /\ calls = [c \in CallSites |-> IdleCall]
    /\ risk = IdleRisk
    /\ rain = [c \in CallSites |-> IdleRain]
    /\ userLocation = NoLocation
    /\ search = IdleSearch
    /\ display = NoDisplay
    /\ assessments = [a \in Requests |-> IdleAssessment]
    /\ currentRisk = NoRisk

OverlapNext ==
    \/ \E c \in Overlapping, p \in NearbyPoints :
          calls[c].pc = "idle" /\ Begin(c, p)
    \/ \E c \in Overlapping : Settle(c)
    \/ Tick

OverlapSpec == OverlapInit /\ [][OverlapNext]_vars

\* The search for a safer city, from the state the assessment of the user's
\* location leaves: Houston, assessed high or very-high with the shipped
\* configuration, its reading in the cache since the instant before.
SearchOrigin == [lat |-> 2976040, lng |-> -9536980]

OriginReading == getUSGSElevation([kind |-> "value", v |-> 124]).reading

TriggeringAssessments ==
    { a \in { RiskReturned(RiskBegun(OriginReading.elevation, rainfall),
                           resp) :
                  rainfall \in {Mm(0), Mm(300)},
                  resp \in ProbeWaterResponses } :
        a.level = "high" \/ a.level = "very-high" }

SearchInit ==
    /\ config = ShippedConfig
    /\ now = Instant(1)
    /\ elevationCache =
           cacheElevation(NoCache, ShippedConfig, Instant(0),
                          CacheKey(SearchOrigin), OriginReading)
    /\ calls = [c \in CallSites |-> IdleCall]
    /\ risk \in TriggeringAssessments
    /\ rain = [c \in CallSites |-> IdleRain]
    /\ userLocation = Location(SearchOrigin.lat, SearchOrigin.lng)
    /\ search = IdleSearch
    /\ display = NoDisplay
    /\ assessments = [a \in Requests |-> IdleAssessment]
    /\ currentRisk = [level |-> risk.level, score |-> risk.score]

\* One search, every request of which is answered.
SearchNext ==
    \/ search.pc = "idle" /\ searchForSaferCity /\ UNCHANGED sessionVars
    \/ ProbeElevationSettles
    \/ ProbeRainSettles
    \/ ProbeWaterSettles
    \/ ProbeNameSettles

SearchSpec == SearchInit /\ [][SearchNext]_vars

\* ... and is answered eventually.
FairSearchSpec == SearchSpec /\ WF_vars(SearchNext)

\* Two requests of the user, the first for Houston and the later one for
\* Denver, every lookup of which is answered without a fault: Houston is
\* assessed very-high, which launches the search, and Denver low.  The
\* later request is made before the search has begun more than
\* RequestWindow probes.
LaterPoint == [lat |-> 3973920, lng |-> -10499030]

RequestPoint(a) == IF a = "assess" THEN SearchOrigin ELSE LaterPoint

AssessElevationResponses(a) ==
    IF a = "assess" THEN {[kind |-> "value", v |-> 124]}
    ELSE {[kind |-> "value", v |-> 16090]}

AssessRainResponses(a) ==
    IF rain[a].pc = "points"
    THEN {r \in PointsResponses : r.kind = "forecast"}
    ELSE {r \in ForecastResponses :
             /\ r.kind = "periods"
             /\ r.periods = IF a = "assess" THEN <<Light>> ELSE <<Dry>>}

AssessWaterResponses ==
    {r \in WaterResponses : r.kind = "places" /\ Len(r.places) = 0}

SessionInit ==
    /\ config = ShippedConfig
    /\ now = 0
    /\ elevationCache = NoCache
    /\ calls = [c \in CallSites |-> IdleCall]
    /\ risk = IdleRisk
    /\ rain = [c \in CallSites |-> IdleRain]
    /\ userLocation = NoLocation
    /\ search = IdleSearch
    /\ display = NoDisplay
    /\ assessments = [a \in Requests |-> IdleAssessment]
    /\ currentRisk = NoRisk

SessionNext ==
    \/ /\ assessments["assess"].pc = "idle"
       /\ searchLocation("assess", RequestPoint("assess"))
    \/ /\ assessments["assess"].pc # "idle"
       /\ search.evaluated <= RequestWindow
       /\ searchLocation("later", RequestPoint("later"))
    \/ \E a \in Requests : \E resp \in AssessElevationResponses(a) :
          AssessElevationSettles(a, resp, 0)
    \/ \E a \in Requests : \E resp \in AssessRainResponses(a) :
          AssessRainSettles(a, resp, 0, 0)
    \/ \E a \in Requests : \E resp \in AssessWaterResponses :
          AssessWaterSettles(a, resp)
    \/ ProbeElevationSettles
    \/ ProbeRainSettles /\ "rainfall" \notin search'.errors
    \/ ProbeWaterSettles /\ "water" \notin search'.errors
    \/ ProbeNameSettles /\ "name" \notin search'.errors

SessionSpec == SessionInit /\ [][SessionNext]_vars

\* The same two requests, in either order, and a call of searchForSaferCity
\* before any location is known.  The forecast is rain north of the user's
\* location and dry in the other directions, and every probe that is looked
\* up has a place name.
PageNext ==
    \/ ~userLocation.set /\ searchForSaferCity /\ UNCHANGED sessionVars
    \/ \E a \in Requests :
          /\ assessments[a].pc = "idle"
          /\ searchLocation(a, RequestPoint(a))
    \/ \E a \in Requests : \E resp \in AssessElevationResponses(a) :
          AssessElevationSettles(a, resp, 0)
    \/ \E a \in Requests : \E resp \in AssessRainResponses(a) :
          AssessRainSettles(a, resp, 0, 0)
    \/ \E a \in Requests : \E resp \in AssessWaterResponses :
          AssessWaterSettles(a, resp)
    \/ ProbeElevationSettles
    \/ /\ ProbeRainSettles
       /\ "rainfall" \notin search'.errors
       /\ search'.pc = "risk" =>
             (search'.riskData.rainfall > 0 <=> search.direction = 1)
    \/ ProbeWaterSettles /\ "water" \notin search'.errors
    \/ ProbeNameSettles /\ search'.outcome = "found"

PageSpec == SessionInit /\ [][PageNext]_vars

----------------------------------------------------------------------------
(* Properties of the elevation resolver                                    *)

KeyPresent(cache, key) == cache.defined /\ key \in DOMAIN cache.map

AllFailed(log) == \A i \in 1..Len(log) : log[i].status = "failed"

Invoked(log) == [i \in 1..Len(log) |-> log[i].provider]

Rank(provider) ==
    CHOOSE i \in 1..Len(ProviderOrder) : ProviderOrder[i] = provider

IsReading(r) ==
    /\ r.source \in {"USGS", "OpenElevation", "Google", "MapBox", "simulated"}
    /\ r.accuracy \in {"high", "medium", "low"}
    /\ r.elevation.tag \in {"num", "NaN"}

FlagOn(cfg, provider) ==
    /\ cfg.present
    /\ \/ provider = "USGS" /\ cfg.ENABLE_USGS
       \/ provider = "OpenElevation" /\ cfg.ENABLE_OPEN_ELEVATION
       \/ provider = "Google" /\ cfg.ENABLE_GOOGLE
       \/ provider = "MapBox" /\ cfg.ENABLE_MAPBOX

\* The candidate list as the specification states it.
ExpectedSources(cfg) ==
    LET on == SelectSeq(ProviderOrder, LAMBDA x : FlagOn(cfg, x))
    IN  IF on = <<>> THEN <<"USGS", "OpenElevation">> ELSE on

\* C1: getElevationData never fails.  No activation ends with an error
\* leaving the function; an activation that has returned holds a reading
\* {elevation, source, accuracy}; and an activation suspended on a source
\* whose request the network can still answer can always go on, whatever
\* the answer (success, non-OK status, empty or malformed payload, missing
\* API key, network error).
C1_NeverFails ==
    \A c \in CallSites :
        /\ calls[c].pc # "rejected"
        /\ calls[c].pc = "done" => IsReading(calls[c].result)
        /\ calls[c].pc = "awaiting" /\ ~calls[c].hung =>
              \A resp \in Settlements(calls[c]) :
                 \E r \in RandomSamples : ENABLED Resume(c, resp, r)

\* All four providers were enabled and every one of them failed, the last
\* with a network error; the resolution returned the simulated reading.
C1_Witness ==
    \E c \in CallSites :
        /\ calls[c].pc = "done"
        /\ Len(calls[c].log) = 4
        /\ AllFailed(calls[c].log)
        /\ calls[c].last = "network_error"
        /\ calls[c].result.source = "simulated"

\* C2: within one resolution the providers are invoked strictly in the
\* order USGS, OpenElevation, Google, MapBox, restricted to the candidate
\* list (the enabled ones, or the default pair when none is enabled); a
\* provider is invoked only after every earlier one has failed, and after a
\* provider has returned a reading with a non-null elevation no provider
\* is invoked: at most one invocation of a resolution succeeds, the last.
C2_StrictOrderFirstSuccessWins ==
    \A c \in CallSites :
        LET log == calls[c].log
        IN  /\ \A i, j \in 1..Len(log) :
                  i < j => Rank(log[i].provider) < Rank(log[j].provider)
            /\ \A i \in 1..Len(log) :
                  \/ FlagOn(config, log[i].provider)
                  \/ \A x \in 1..Len(ProviderOrder) :
                        ~FlagOn(config, ProviderOrder[x])
            /\ \A i \in 1..Len(log) :
                  i < Len(log) => log[i].status = "failed"
            /\ \A i \in 1..Len(log) :
                  log[i].status = "ok" =>
                     /\ i = Len(log)
                     /\ calls[c].pc = "done"
                     /\ calls[c].result.source = log[i].provider

\* With all four providers enabled, the first two failed and Google
\* succeeded: MapBox was not invoked.
C2_Witness ==
    \E c \in CallSites :
        /\ \A x \in 1..Len(ProviderOrder) : FlagOn(config, ProviderOrder[x])
        /\ calls[c].pc = "done"
        /\ Invoked(calls[c].log) = <<"USGS", "OpenElevation", "Google">>
        /\ calls[c].log[3].status = "ok"

\* C3: a call that starts while the cache holds an entry for its key whose
\* age is at most the entry's TTL returns that entry's reading, at once,
\* and invokes no provider.
C3_SecondCallServedFromCache ==
    [][\A c \in CallSites : \A p \in Points :
          LET key == CacheKey(p)
          IN  ( /\ KeyPresent(elevationCache, key)
                /\ now - elevationCache.map[key].timestamp
                      <= elevationCache.map[key].expiry
                /\ Begin(c, p) )
              => /\ calls'[c].pc = "done"
                 /\ calls'[c].log = <<>>
                 /\ ~calls'[c].fetching
                 /\ calls'[c].result = elevationCache.map[key].data
                 /\ elevationCache' = elevationCache]_vars

\* A call was served from an entry cached earlier, for a coordinate other
\* than Houston's that rounds to Houston's key.
C3_Witness ==
    \E c \in CallSites :
        LET key == CacheKey(calls[c].point)
        IN  /\ calls[c].pc = "done"
            /\ calls[c].lookup = "hit"
            /\ calls[c].log = <<>>
            /\ calls[c].point = [lat |-> 2976041, lng |-> -9536984]
            /\ KeyPresent(elevationCache, key)
            /\ elevationCache.map[key].timestamp < now
            /\ elevationCache.map[key].data = calls[c].result

\* C4: a call that starts while the cache holds an entry for its key whose
\* age exceeds the TTL is not served that entry: it invokes the first
\* provider of the candidate list; and when a resolution returns a result
\* that it did not take from the cache, the entry of its key is that
\* result, stamped with the time of the return.
C4_ExpiredEntryResolvedAgain ==
    [][\A c \in CallSites : \A p \in Points :
          LET key == CacheKey(p)
          IN  /\ ( /\ KeyPresent(elevationCache, key)
                   /\ now - elevationCache.map[key].timestamp
                         > elevationCache.map[key].expiry
                   /\ Begin(c, p) )
                 => /\ calls'[c].pc = "awaiting"
                    /\ calls'[c].result = NoReading
                    /\ calls'[c].log =
                          <<[provider |-> ExpectedSources(config)[1],
                             status |-> "pending"]>>
              /\ ( /\ calls[c].pc = "awaiting"
                   /\ calls[c].point = p
                   /\ calls'[c].pc = "done" )
                 => /\ KeyPresent(elevationCache', key)
                    /\ elevationCache'.map[key].data = calls'[c].result
                    /\ elevationCache'.map[key].timestamp = now]_vars

\* A resolution that found a stale entry has returned, and the entry of its
\* key is now its own result, written after the old entry's TTL.
C4_Witness ==
    \E c \in CallSites :
        LET key == CacheKey(calls[c].point)
        IN  /\ calls[c].pc = "done"
            /\ calls[c].lookup = "expired"
            /\ KeyPresent(elevationCache, key)
            /\ elevationCache.map[key].data = calls[c].result
            /\ elevationCache.map[key].timestamp > CACHE_DURATION

\* Coordinates in each region getSimulatedElevation tells apart: the Rocky
\* Mountains, the Appalachians, the Sierra Nevada, the East Coast rule, both
\* coast rules at once, and none.
RegionSamples ==
    { [lat |-> Deg(45), lng |-> Deg(-110)],
      [lat |-> Deg(40), lng |-> Deg(-80)],
      [lat |-> Deg(35), lng |-> Deg(-115)],
      [lat |-> Deg(30), lng |-> Deg(-80)],
      [lat |-> Deg(34), lng |-> Deg(-121)],
      [lat |-> 0, lng |-> 0] }

\* C5: when every provider of the candidate list has failed, the reading
\* returned is simulated, of low accuracy, and its elevation is a number
\* that is not negative; the simulated elevation is not negative in any
\* region, for the lowest, the middle and the highest random term.
C5_AllFailedGivesSimulated ==
    /\ \A p \in RegionSamples \cup Points : \A r \in RandomSamples :
          getSimulatedElevation(p.lat, p.lng, r) >= 0
    /\ \A c \in CallSites :
          ( /\ calls[c].pc = "done"
            /\ calls[c].lookup # "hit"
            /\ AllFailed(calls[c].log) )
          => /\ Len(calls[c].log) = Len(ExpectedSources(config))
             /\ calls[c].result.source = "simulated"
             /\ calls[c].result.accuracy = "low"
             /\ calls[c].result.elevation.tag = "num"
             /\ calls[c].result.elevation.v >= 0

\* Every provider failed for Houston with the lowest random term: base 50
\* minus 100 is negative, and the reading's elevation is 0.
C5_Witness ==
    \E c \in CallSites :
        /\ calls[c].pc = "done"
        /\ calls[c].lookup # "hit"
        /\ AllFailed(calls[c].log)
        /\ RegionalBase(calls[c].point.lat, calls[c].point.lng) < 100
        /\ calls[c].result.elevation = Num(0)

\* C6: the reading returned by a resolution that invoked providers carries
\* the tag of the provider whose invocation succeeded (the tag "simulated"
\* when none did), and no provider is invoked twice in a resolution.
C6_SourceIsTheProviderThatSucceeded ==
    \A c \in CallSites :
        LET log == calls[c].log
        IN  /\ \A i, j \in 1..Len(log) :
                  log[i].provider = log[j].provider => i = j
            /\ ( /\ calls[c].pc = "done"
                 /\ calls[c].lookup # "hit" )
               => calls[c].result.source =
                     IF log[Len(log)].status = "ok"
                     THEN log[Len(log)].provider
                     ELSE "simulated"

\* USGS failed, OpenElevation succeeded, and the reading is tagged
\* OpenElevation.
C6_Witness ==
    \E c \in CallSites :
        /\ calls[c].pc = "done"
        /\ Len(calls[c].log) = 2
        /\ calls[c].log[1] = [provider |-> "USGS", status |-> "failed"]
        /\ calls[c].log[2] = [provider |-> "OpenElevation", status |-> "ok"]
        /\ calls[c].result.source = "OpenElevation"

\* C7: no resolution is left pending: an activation suspended on a source
\* can always go on, because a request that the network never answers is
\* given up after the timeout and counted as that provider's failure.
C7_NoCallLeftPending ==
    \A c \in CallSites : calls[c].pc = "awaiting" => ENABLED Settle(c)

\* The failures the specification calls transient.
Transient == {"network_error", "http_5xx"}

\* The number of invocations of the provider invoked at log[n], up to n.
InvocationsOf(log, n) ==
    Cardinality({j \in 1..n : log[j].provider = log[n].provider})

\* C8: a provider that the resolution has given up after a transient
\* failure (network error, 5xx) was invoked 1 + MAX_RETRIES times, and one
\* given up after a permanent failure was invoked exactly once.
C8_TransientFailuresRetried ==
    \A c \in CallSites :
        LET log == calls[c].log
            n == IF Len(log) > 0 /\ log[Len(log)].status = "pending"
                 THEN Len(log) - 1 ELSE Len(log)
        IN  (n > 0 /\ log[n].status = "failed") =>
               InvocationsOf(log, n) =
                  IF calls[c].last \in Transient THEN 1 + MAX_RETRIES ELSE 1

----------------------------------------------------------------------------
(* Properties of the risk engine                                           *)

\* The elevation and rainfall tables as the specification states them: the
\* multipliers k of 20/3 of the rows that apply to a value.
Row(applies, k) == IF applies THEN {k} ELSE {}

ElevationRows(x) ==
    Row(x < 3, 15)
    \cup Row(x >= 3 /\ x < 10, 10)
    \cup Row(x >= 10 /\ x < 20, 8)
    \cup Row(x >= 20 /\ x < 50, 4)
    \cup Row(x >= 50 /\ x < 100, 2)
    \cup Row(x >= 100 /\ x < 200, 1)
    \cup Row(x >= 200, 0)

RainfallRows(x) ==
    Row(x > Mm(200), 15)
    \cup Row(x <= Mm(200) /\ x > Mm(100), 10)
    \cup Row(x <= Mm(100) /\ x > Mm(50), 8)
    \cup Row(x <= Mm(50) /\ x > Mm(25), 4)
    \cup Row(x <= Mm(25) /\ x > Mm(10), 2)
    \cup Row(x <= Mm(10), 0)

\* 0.40 * E + 0.60 * R, doubled when nearWater, for E = e * 20/3 and
\* R = r * 20/3
StatedScore(e, r, nearWater) ==
    LET sum == FAdd(FMul(FromRatio(40, 100), FromRatio(e * 20, 3)),
                    FMul(FromRatio(60, 100), FromRatio(r * 20, 3)))
    IN  IF nearWater THEN FAdd(sum, sum) ELSE sum

\* C10: for every elevation that is a number, every rainfall and either
\* nearWater, the score calculateFloodRisk returns is 0.40 * E + 0.60 * R,
\* doubled when nearWater, where E and R are the rows of the two tables
\* times 20/3; an elevation of exactly 3, 10, 20, 50, 100, 200 takes the row
\* of the higher elevations and a rainfall of exactly 200, 100, 50, 25, 10
\* the row of the lower rainfalls.
C10_ScoreIsWeightedBuckets ==
    (risk.pc = "done" /\ risk.elevation.tag = "num") =>
        /\ \E e \in ElevationRows(risk.elevation.v) :
           \E r \in RainfallRows(risk.rainfall) :
              risk.score = StatedScore(e, r, risk.nearWater)
        /\ risk.elevation.v \in {3, 10, 20, 50, 100, 200} =>
              ElevationFactor(risk.elevation) =
                 ElevationFactor(Num(risk.elevation.v + 1))
        /\ risk.rainfall \in {Mm(200), Mm(100), Mm(50), Mm(25), Mm(10)} =>
              RainfallFactor(risk.rainfall) =
                 RainfallFactor(risk.rainfall - 1)

\* Elevation exactly 3 m and rainfall exactly 200 mm near water: both rows
\* are 10, and the score is twice 0.4 * 200/3 + 0.6 * 200/3.
C10_Witness ==
    /\ risk.pc = "done"
    /\ risk.elevation = Num(3)
    /\ risk.rainfall = Mm(200)
    /\ risk.nearWater
    /\ risk.score = StatedScore(10, 10, TRUE)
    /\ FLess(FromRatio(133, 1), risk.score)
    /\ FLess(risk.score, FromRatio(134, 1))

\* k * 20/3, the thresholds of the classification (k = 10, 8, 6)
Threshold(k) == FromRatio(k * 20, 3)

\* C11: the level returned is very-high when the final score is at least
\* 10 * 20/3, else high when it is at least 8 * 20/3, else medium when it is
\* at least 6 * 20/3, else low; a final score equal to a threshold has the
\* level of that threshold.
C11_InclusiveThresholds ==
    risk.pc = "done" =>
        /\ risk.level =
              IF ~FLess(risk.score, Threshold(10)) THEN "very-high"
              ELSE IF ~FLess(risk.score, Threshold(8)) THEN "high"
              ELSE IF ~FLess(risk.score, Threshold(6)) THEN "medium"
              ELSE "low"
        /\ risk.score = Threshold(10) => risk.level = "very-high"
        /\ risk.score = Threshold(8) => risk.level = "high"
        /\ risk.score = Threshold(6) => risk.level = "medium"

\* A doubled score that is exactly 8 * 20/3, classified high.
C11_Witness ==
    /\ risk.pc = "done"
    /\ risk.nearWater
    /\ risk.score = Threshold(8)
    /\ risk.level = "high"

\* C13: for an elevation below 3 m and a rainfall above 200 mm the weighted
\* score is at least the very-high threshold before the doubling, and with
\* nearWater the level returned is very-high.
C13_SaturatesBeforeDoubling ==
    (risk.elevation.tag = "num" /\ risk.elevation.v < 3
       /\ risk.rainfall > Mm(200)) =>
        /\ risk.pc = "awaiting" =>
              ~FLess(risk.totalRiskScore, Threshold(10))
        /\ (risk.pc = "done" /\ risk.nearWater) => risk.level = "very-high"

\* 2 m and 200.1 mm near water: very-high, with a score above 100.
C13_Witness ==
    /\ risk.pc = "done"
    /\ risk.elevation = Num(2)
    /\ risk.rainfall = Mm(200) + 1
    /\ risk.nearWater
    /\ risk.level = "very-high"
    /\ FLess(FromRatio(100, 1), risk.score)

\* C14: for an elevation of at least 200 m and a rainfall of at most 10 mm,
\* not near water, the score returned is 0 and the level is low.
C14_HighAndDryIsZero ==
    (risk.pc = "done" /\ risk.elevation.tag = "num"
       /\ risk.elevation.v >= 200 /\ risk.rainfall <= Mm(10)
       /\ ~risk.nearWater) =>
        /\ risk.score = FZero
        /\ risk.level = "low"

\* Exactly 200 m and exactly 10 mm, not near water: score 0, level low.
C14_Witness ==
    /\ risk.pc = "done"
    /\ risk.elevation = Num(200)
    /\ risk.rainfall = Mm(10)
    /\ ~risk.nearWater
    /\ risk.score = FZero
    /\ risk.level = "low"

\* C15: for an elevation in [20, 50) m and a rainfall in (25, 50] mm both
\* factors are 4 * 20/3 and their weighted sum is 4 * 20/3; with nearWater
\* the score returned is exactly the high threshold 8 * 20/3 and the level
\* is high.
C15_DoubledScoreMeetsHighThreshold ==
    (risk.elevation.tag = "num"
       /\ risk.elevation.v >= 20 /\ risk.elevation.v < 50
       /\ risk.rainfall > Mm(25) /\ risk.rainfall <= Mm(50)) =>
        /\ ElevationFactor(risk.elevation) = Threshold(4)
        /\ RainfallFactor(risk.rainfall) = Threshold(4)
        /\ risk.pc = "awaiting" => risk.totalRiskScore = Threshold(4)
        /\ (risk.pc = "done" /\ risk.nearWater) =>
              /\ risk.score = Threshold(8)
              /\ ~FLess(risk.score, Threshold(8))
              /\ risk.level = "high"

\* The scenario of the specification: 25 m, 45 mm, near water, level high.
C15_Witness ==
    /\ risk.pc = "done"
    /\ risk.elevation = Num(25)
    /\ risk.rainfall = Mm(45)
    /\ risk.nearWater
    /\ risk.level = "high"

----------------------------------------------------------------------------
(* Properties of the rainfall provider                                     *)

\* The responses after which the specification has getRainfallData fall back.
RainFailures ==
    {"network_error", "http_error", "no_forecast", "malformed", "bad_period",
     "no_length"}

\* C20: getRainfallData never fails and returns a number that is not
\* negative; after a lookup or a forecast fetch that failed, was not OK,
\* had no forecast URL or had a malformed payload, the value returned is the
\* simulated rainfall, floored at zero.
C20_RainfallNeverFails ==
    \A c \in CallSites :
        /\ rain[c].pc # "rejected"
        /\ rain[c].pc = "done" => rain[c].result >= 0
        /\ (rain[c].pc = "done" /\ rain[c].last \in RainFailures)
           => /\ rain[c].via = "simulated"
              /\ rain[c].result =
                    Max(0, RegionalRainfall(rain[c].point.lat,
                                            rain[c].point.lng)
                           * (1000 + (3 * rain[c].season) \div 10)
                           + 20 * rain[c].random)

----------------------------------------------------------------------------
(* Properties of the search for a safer city                               *)

\* The traversal the specification states: the directions of a ring in this
\* order, the rings from 20 to 160 miles.
StatedDirections ==
    <<"North", "South", "East", "West", "Northeast", "Northwest",
      "Southeast", "Southwest">>

StatedRing(k) == 20 * ((k - 1) \div Len(StatedDirections) + 1)

StatedDirection(k) == StatedDirections[((k - 1) % Len(StatedDirections)) + 1]

Northward(name) ==
    IF name \in {"North", "Northeast", "Northwest"} THEN 1
    ELSE IF name \in {"South", "Southeast", "Southwest"} THEN -1
    ELSE 0

Eastward(name) ==
    IF name \in {"East", "Northeast", "Southeast"} THEN 1
    ELSE IF name \in {"West", "Northwest", "Southwest"} THEN -1
    ELSE 0

\* The k-th probe of the stated traversal around the user's location.
StatedProbe(k) ==
    calculateLocationAtDistance(userLocation.lat, userLocation.lng,
                                Northward(StatedDirection(k)),
                                Eastward(StatedDirection(k)), StatedRing(k))

\* A name of a place: a text that is not made of two numbers.
GenuineName(cityName) ==
    cityName.kind = "text" /\ cityName.text \in PlaceTexts

\* The probe whose risk and name the search holds is a candidate.
Qualifies(s) ==
    /\ s.riskData.pc = "done"
    /\ s.riskData.level \in {"low", "medium"}
    /\ GenuineName(s.cityName)

Searching(s) == s.pc \in {"elevation", "rainfall", "risk", "name"}

\* C16: the probes are evaluated one at a time in the order ring 20, 40,
\* ..., 160 and, within a ring, N, S, E, W, NE, NW, SE, SW; the search goes
\* on to the next probe only when the current one does not qualify (its
\* level is not low or medium, or its name is not genuine), and returns the
\* current one when it does; after that nothing more is evaluated.
C16_FirstQualifyingProbeWins ==
    [][ /\ Searching(search') =>
            /\ search'.evaluated \in 1..64
            /\ search'.distance = StatedRing(search'.evaluated)
            /\ directions[search'.direction].name
                   = StatedDirection(search'.evaluated)
            /\ search'.testLocation = StatedProbe(search'.evaluated)
        /\ search'.evaluated # search.evaluated =>
            /\ search'.evaluated = search.evaluated + 1
            /\ search.pc # "idle" => ~Qualifies(search')
            /\ search'.outcome = "none"
        /\ (search.outcome = "none" /\ search'.outcome = "found") =>
            /\ Qualifies(search')
            /\ search'.pc = "done"
            /\ search'.evaluated = search.evaluated
            /\ display'.saferCity
            /\ display'.cityName = search'.cityName
            /\ display'.distance = StatedRing(search.evaluated)
            /\ display'.direction = StatedDirection(search.evaluated)
            /\ display'.saferLocation = StatedProbe(search.evaluated)
        /\ (search.outcome = "none" /\ search'.outcome = "absent") =>
            ~Qualifies(search')
        /\ search.pc = "done" =>
            /\ search' = search
            /\ calls' = calls /\ rain' = rain /\ display' = display
      ]_vars

\* A candidate of the first ring is returned, and no larger ring was probed:
\* East at 20 miles, after North and South did not qualify.
C16_Witness ==
    /\ search.outcome = "found"
    /\ search.evaluated = 3
    /\ display.saferCity
    /\ display.distance = 20
    /\ display.direction = "East"
    /\ display.riskLevel = "low"
    /\ DOMAIN elevationCache.map
         = {CacheKey(SearchOrigin)} \cup {CacheKey(StatedProbe(k)) : k \in 1..3}

\* The search is over and has reported that there is no safer city.
ReportsAbsence ==
    /\ search.pc = "done"
    /\ search.outcome = "absent"
    /\ ~display.loading
    /\ ~display.saferCity
    /\ display.noSafe

Nameless(resp) ==
    \/ resp.kind # "address"
    \/ /\ resp.address.city = ""
       /\ resp.address.town = ""
       /\ resp.address.village = ""
       /\ resp.address.county = ""

\* C18: the name of a displayed candidate is a place name, never the
\* coordinate string of the probe (nor any text made of two numbers); a
\* lookup that names no city, town, village or county, or that failed,
\* yields the coordinate string of the probe; and the step that resumes
\* with a coordinate string does not accept the probe but goes on to the
\* next one (or, after the last one, reports absence).
C18_NoNamelessCandidate ==
    /\ [](display.saferCity =>
            /\ GenuineName(display.cityName)
            /\ display.cityName.kind # "coords"
            /\ display.cityName.text \notin NumberTexts)
    /\ [](search.pc = "name" =>
            \A resp \in NameResponses :
                Nameless(resp) =>
                    /\ getCityName(search.testLocation.lat,
                                   search.testLocation.lng, resp)
                         = CoordinateString(search.testLocation.lat,
                                            search.testLocation.lng)
                    /\ IsCoordinateName(
                           getCityName(search.testLocation.lat,
                                       search.testLocation.lng, resp)))
    /\ [][(search.pc = "name" /\ ~GenuineName(search'.cityName)) =>
            /\ search'.outcome # "found"
            /\ ~display'.saferCity
            /\ IF search.evaluated < 64
               THEN /\ Searching(search')
                    /\ search'.evaluated = search.evaluated + 1
               ELSE search'.outcome = "absent"]_vars

\* A probe of level low was skipped for its coordinate name, and the
\* search is at the next probe.
C18_Witness ==
    /\ Searching(search)
    /\ search.evaluated > 1
    /\ search.riskData.pc = "done"
    /\ search.riskData.level = "low"
    /\ search.cityName = CoordinateString(StatedProbe(search.evaluated - 1).lat,
                                          StatedProbe(search.evaluated - 1).lng)

\* C19: an error raised by a lookup of a probe (elevation, rainfall, water
\* proximity inside the risk calculation, name) fails that probe and only
\* that probe: the probe is not the one accepted, and the search is not
\* aborted, so that absence is still reported only after all 64 probes.
C19_ErrorFailsOnlyThatProbe ==
    /\ search.outcome = "found" => search.errors = {}
    /\ search.outcome = "absent" => search.evaluated = 64
    /\ (search.pc = "done") = (search.outcome # "none")

\* The inputs of an activation of calculateFloodRisk that has returned.
Inputs(a) == <<a.elevation, a.rainfall, a.nearWater>>

----------------------------------------------------------------------------
(* Properties of the rainfall estimate                                     *)

\* The estimate the specification gives a period, in mm.
StatedEstimate(period) ==
    IF period.words
         \cap {"rain", "shower", "storm", "thunderstorm", "precipitation",
               "drizzle", "sprinkle"} = {}
    THEN 0
    ELSE IF period.words \cap {"heavy", "severe"} # {} THEN 15
    ELSE IF period.words \cap {"moderate", "steady"} # {} THEN 8
    ELSE 3

RECURSIVE StatedSum(_, _)
StatedSum(periods, n) ==
    IF n = 0 THEN 0
    ELSE StatedSum(periods, n - 1) + StatedEstimate(periods[n])

\* C21: a rainfall computed from a forecast is the sum, in millimetres and
\* unscaled, of the estimates of its first min(n, 4) periods (0, 3, 8 or
\* 15 each), hence at most 60 mm.
C21_UnscaledForecastSum ==
    \A c \in CallSites :
        (rain[c].pc = "done" /\ rain[c].via = "forecast"
           /\ rain[c].last = "periods") =>
            /\ rain[c].result
                  = Mm(StatedSum(rain[c].periods,
                                 Min(Len(rain[c].periods), 4)))
            /\ rain[c].result <= Mm(60)

-----------------------------------------------------------------------------
(* Properties of the water proximity check                                 *)

\* What the contract of isNearWater states for an answer of the lookup: a
\* feature matches when its address names an ocean, a sea or a lake, or when
\* its type or its class is water.
StatedFeature(place) ==
    \/ place.hasAddress /\ place.tags \cap {"ocean", "sea", "lake"} # {}
    \/ place.type = "water"
    \/ place.class = "water"

StatedNearWater(resp) ==
    /\ resp.kind = "places"
    /\ \E i \in 1..Len(resp.places) : StatedFeature(resp.places[i])

\* C22: isNearWater never fails: whatever the lookup delivers, the check
\* returns, with true exactly when at least one returned feature is tagged
\* ocean, sea or lake in its address or has the type or the class water, and
\* with false when no feature matches, when the lookup fails and when the
\* payload is malformed.
C22_NearWaterExactlyOnMatch ==
    [][\A resp \in WaterResponses :
          NearWaterSettles(resp) =>
              /\ risk'.pc = "done"
              /\ risk'.nearWater = StatedNearWater(resp)]_vars

-----------------------------------------------------------------------------
(* Properties of the cache's lifetime                                      *)

Age(entry, t) == t - entry.timestamp

ServedFromCache(c, key) ==
    /\ calls'[c].pc = "done"
    /\ calls'[c].lookup = "hit"
    /\ calls'[c].result = elevationCache.map[key].data

\* C25, as stated: a call that starts while the entry of its key has an age
\* equal to its TTL or greater is not served that entry.
C25_StaleFromTtlOn ==
    [][\A c \in CallSites : \A p \in Points :
          LET key == CacheKey(p)
          IN  ( /\ KeyPresent(elevationCache, key)
                /\ Age(elevationCache.map[key], now)
                      >= elevationCache.map[key].expiry
                /\ Begin(c, p) )
              => ~ServedFromCache(c, key)]_vars

\* C25, amended: a call is served the entry of its key only while the
\* entry's age is at most its TTL; at any age greater than the TTL the entry
\* is stale and is not returned.
C25_ServedOnlyUpToTtl ==
    [][\A c \in CallSites : \A p \in Points :
          LET key == CacheKey(p)
          IN  ( /\ KeyPresent(elevationCache, key)
                /\ Begin(c, p) )
              => /\ ServedFromCache(c, key)
                    => Age(elevationCache.map[key], now)
                          <= elevationCache.map[key].expiry
                 /\ Age(elevationCache.map[key], now)
                       > elevationCache.map[key].expiry
                    => /\ calls'[c].lookup = "expired"
                       /\ calls'[c].result = NoReading]_vars

\* A call has just been served an entry whose age is exactly its TTL.
C25_Witness ==
    \E c \in CallSites :
        LET key == CacheKey(calls[c].point)
        IN  /\ calls[c].pc = "done"
            /\ calls[c].lookup = "hit"
            /\ KeyPresent(elevationCache, key)
            /\ calls[c].result = elevationCache.map[key].data
            /\ Age(elevationCache.map[key], now)
                  = elevationCache.map[key].expiry

-----------------------------------------------------------------------------
(* Properties of the accepted readings                                     *)

FiniteElevation(reading) == reading.elevation.tag = "num"

\* C26: every reading getElevationData has returned, and every reading the
\* cache holds, has a finite numeric elevation: a provider's answer whose
\* elevation is missing or is not a number is never accepted as a reading.
C26_ReadingsAreFinite ==
    /\ \A c \in CallSites :
          calls[c].pc = "done" => FiniteElevation(calls[c].result)
    /\ elevationCache.defined =>
          \A key \in DOMAIN elevationCache.map :
              FiniteElevation(elevationCache.map[key].data)

-----------------------------------------------------------------------------
(* Properties of the cache's keys                                          *)

CachedKeys(cache) == IF cache.defined THEN DOMAIN cache.map ELSE {}

\* C29, as stated: no operation removes a key from the cache.
C29_NoKeyRemoved ==
    [][CachedKeys(elevationCache) \subseteq CachedKeys(elevationCache')]_vars

\* C29, amended: a key leaves the cache only when a call for that key
\* starts while the key's entry is older than its TTL, which deletes that
\* one entry at read time; no other operation removes a key, and an entry
\* that is not expired is only ever overwritten.
C29_OnlyExpiredKeyRemovedAtRead ==
    [][\A key \in CachedKeys(elevationCache) \ CachedKeys(elevationCache') :
          /\ Age(elevationCache.map[key], now)
                > elevationCache.map[key].expiry
          /\ \E c \in CallSites : \E p \in Points :
                /\ CacheKey(p) = key
                /\ Begin(c, p)
          /\ CachedKeys(elevationCache') = CachedKeys(elevationCache) \ {key}
       ]_vars

\* A call found the entry of its key expired and deleted it; its resolution
\* has not returned yet.
C29_Witness ==
    \E c \in CallSites :
        /\ calls[c].pc = "awaiting"
        /\ calls[c].lookup = "expired"
        /\ ~KeyPresent(elevationCache, CacheKey(calls[c].point))

-----------------------------------------------------------------------------
(* Properties of the simulated reading in the cache                        *)

\* C30: when every provider of a resolution has failed, the simulated
\* reading it returns is by then the cache's entry for the rounded key,
\* stamped with the time of the return and the configured TTL; and a call
\* that starts for that key while the entry's age is within the TTL returns
\* that same simulated reading and invokes no provider, whatever the
\* providers would answer by then.
C30_SimulatedReadingCached ==
    [][\A c \in CallSites : \A p \in Points :
          LET key == CacheKey(p)
          IN  /\ ( /\ calls[c].pc = "awaiting"
                   /\ calls[c].point = p
                   /\ calls'[c].pc = "done"
                   /\ AllFailed(calls'[c].log) )
                 => /\ calls'[c].result.source = "simulated"
                    /\ KeyPresent(elevationCache', key)
                    /\ elevationCache'.map[key] =
                          [data |-> calls'[c].result, timestamp |-> now,
                           expiry |-> CacheDuration(config)]
              /\ ( /\ KeyPresent(elevationCache, key)
                   /\ elevationCache.map[key].data.source = "simulated"
                   /\ Age(elevationCache.map[key], now)
                         <= elevationCache.map[key].expiry
                   /\ Begin(c, p) )
                 => /\ calls'[c].pc = "done"
                    /\ calls'[c].log = <<>>
                    /\ ~calls'[c].fetching
                    /\ calls'[c].result = elevationCache.map[key].data
                    /\ elevationCache' = elevationCache]_vars

\* A call was served, at a later instant and without invoking a provider,
\* the simulated reading an earlier resolution cached.
C30_Witness ==
    \E c \in CallSites :
        LET key == CacheKey(calls[c].point)
        IN  /\ calls[c].pc = "done"
            /\ calls[c].lookup = "hit"
            /\ calls[c].log = <<>>
            /\ calls[c].result.source = "simulated"
            /\ KeyPresent(elevationCache, key)
            /\ elevationCache.map[key].data = calls[c].result
            /\ elevationCache.map[key].timestamp < now

-----------------------------------------------------------------------------
(* Properties of overlapping resolutions                                   *)

\* C24: when two resolutions of one key are in flight at the same time,
\* neither ends in an error and each returns a reading; the reading a
\* resolution returns is at that moment the one entry of the cache, under
\* the key, so that the entry left behind is the one of the resolution that
\* finished last; and the cache never holds an entry that no resolution
\* returned.
C24_LastWriterWins ==
    [][/\ \A c \in CallSites :
             /\ calls'[c].pc # "rejected"
             /\ calls'[c].pc = "done" => IsReading(calls'[c].result)
             /\ (calls[c].pc = "awaiting" /\ calls'[c].pc = "done")
                   => /\ CachedKeys(elevationCache') =
                            {CacheKey(calls[c].point)}
                      /\ elevationCache'.map[CacheKey(calls[c].point)] =
                            [data |-> calls'[c].result, timestamp |-> now,
                             expiry |-> CacheDuration(config)]
       /\ \A key \in CachedKeys(elevationCache') :
             \E c \in CallSites :
                 /\ calls'[c].pc = "done"
                 /\ CacheKey(calls'[c].point) = key
                 /\ calls'[c].result = elevationCache'.map[key].data]_vars

\* Both resolutions missed the cache and invoked providers; they returned
\* different readings, one after the other, and the entry is the later one.
C24_Witness ==
    /\ \A c \in Overlapping :
          /\ calls[c].pc = "done"
          /\ calls[c].lookup = "miss"
          /\ calls[c].log # <<>>
    /\ calls["assess"].result # calls["probe"].result
    /\ KeyPresent(elevationCache, CacheKey(calls["probe"].point))
    /\ elevationCache.map[CacheKey(calls["probe"].point)].data =
          calls["probe"].result
    /\ elevationCache.map[CacheKey(calls["probe"].point)].timestamp = now
    /\ now > 0

-----------------------------------------------------------------------------
(* Properties of overlapping requests                                      *)

\* The request made most recently: the one whose location is the user's
\* location.
MostRecent ==
    CHOOSE a \in Requests :
        userLocation = Location(assessments[a].point.lat,
                                assessments[a].point.lng)

\* C23: once the assessments of both requests have completed, the current
\* risk level and the current risk score are those of the location
\* requested most recently, in whatever order the responses arrived.
C23_LatestRequestWins ==
    (\A a \in Requests : assessments[a].pc = "done") =>
        /\ currentRisk.level = assessments[MostRecent].riskData.level
        /\ currentRisk.score = assessments[MostRecent].riskData.score

\* The requests whose location a probe is the projection of, for the
\* distance and the direction of the probe.
OriginsOf(s) ==
    {a \in Requests :
        s.testLocation =
            calculateLocationAtDistance(
                RequestPoint(a).lat, RequestPoint(a).lng,
                directions[s.direction].latOffset,
                directions[s.direction].lngOffset, s.distance)}

\* C27: all the probes of one search are projected from one origin, the
\* user's location when the search started: the first probe is projected
\* from the user's location of that moment, and every later probe from the
\* origin of the probe before it, whatever the user's location has become.
C27_OneOriginPerSearch ==
    [][/\ (search.pc = "idle" /\ search'.evaluated = 1) =>
             search'.testLocation =
                 calculateLocationAtDistance(
                     userLocation.lat, userLocation.lng,
                     directions[1].latOffset, directions[1].lngOffset,
                     FirstDistance)
       /\ (search.evaluated >= 1 /\ search'.evaluated = search.evaluated + 1)
             => OriginsOf(search) \cap OriginsOf(search') # {}]_vars

\* C28: the safer city is on display only while the current risk level is
\* high or very-high.
C28_SaferCityOnlyAtHighRisk ==
    display.saferCity => currentRisk.level \in {"high", "very-high"}

-----------------------------------------------------------------------------
(* Properties of the risk assessment's range                               *)

Levels == {"low", "medium", "high", "very-high"}

\* The level calculateFloodRisk returns for an elevation, a rainfall and an
\* outcome of the water check.
LevelFor(elevation, rainfall, nearWater) ==
    RiskReturnedOf(RiskBegun(elevation, rainfall), nearWater,
                   IF nearWater
                   THEN FMul(WeightedScore(elevation, rainfall),
                             FromRatio(2, 1))
                   ELSE WeightedScore(elevation, rainfall)).level

C34_ScoreWithinHundred ==
    risk.pc = "done" =>
        /\ FGeq(risk.score, FZero)
        /\ FGeq(FromRatio(100, 1), risk.score)

\* low < medium < high < very-high
LevelRank(level) ==
    CASE level = "low" -> 1
      [] level = "medium" -> 2
      [] level = "high" -> 3
      [] level = "very-high" -> 4
      [] OTHER -> 0

\* C36: the level is monotone in each input, the other two fixed: no lower
\* elevation gives a lower level than the one returned, no higher rainfall
\* gives a lower level, and near water the level is not lower than away
\* from water.
C36_LevelIsMonotone ==
    (risk.pc = "done" /\ risk.elevation.tag = "num") =>
        /\ \A elevation \in ElevationSamples :
              (elevation.tag = "num" /\ elevation.v <= risk.elevation.v) =>
                  LevelRank(LevelFor(elevation, risk.rainfall,
                                     risk.nearWater))
                      >= LevelRank(risk.level)
        /\ \A rainfall \in RainfallSamples :
              rainfall >= risk.rainfall =>
                  LevelRank(LevelFor(risk.elevation, rainfall,
                                     risk.nearWater))
                      >= LevelRank(risk.level)
        /\ LevelRank(LevelFor(risk.elevation, risk.rainfall, TRUE))
              >= LevelRank(LevelFor(risk.elevation, risk.rainfall, FALSE))
        /\ LevelRank(risk.level) >= 1

\* A calculation has returned a level that a lower elevation, a higher
\* rainfall and the nearness of water each raise.
C36_Witness ==
    /\ risk.pc = "done"
    /\ risk.elevation.tag = "num"
    /\ ~risk.nearWater
    /\ \E elevation \in ElevationSamples :
          /\ elevation.tag = "num"
          /\ elevation.v < risk.elevation.v
          /\ LevelRank(LevelFor(elevation, risk.rainfall, risk.nearWater))
                > LevelRank(risk.level)
    /\ \E rainfall \in RainfallSamples :
          /\ rainfall > risk.rainfall
          /\ LevelRank(LevelFor(risk.elevation, rainfall, risk.nearWater))
                > LevelRank(risk.level)
    /\ LevelRank(LevelFor(risk.elevation, risk.rainfall, TRUE))
          > LevelRank(risk.level)

-----------------------------------------------------------------------------
(* Properties of reads of the cache                                        *)

\* C37: a call that is served from the cache leaves the cache as it was,
\* and no start of a call modifies an entry that stays in the cache: its
\* reading, its timestamp and its TTL are those it was written with, so
\* that its age, counted from the write, decides when it expires.
C37_ReadsLeaveEntriesAlone ==
    [][\A c \in CallSites : \A p \in Points :
          Begin(c, p) =>
              /\ calls'[c].lookup = "hit" => elevationCache' = elevationCache
              /\ \A key \in CachedKeys(elevationCache)
                              \cap CachedKeys(elevationCache') :
                    elevationCache'.map[key] = elevationCache.map[key]]_vars

\* A call was served, after the instant of the write, a provider's reading
\* that is still stamped with the instant of the write.
C37_Witness ==
    \E c \in CallSites :
        LET key == CacheKey(calls[c].point)
        IN  /\ calls[c].pc = "done"
            /\ calls[c].lookup = "hit"
            /\ KeyPresent(elevationCache, key)
            /\ elevationCache.map[key].data.source = "USGS"
            /\ elevationCache.map[key].timestamp = 0
            /\ now = Instant(1)

-----------------------------------------------------------------------------
(* Properties of the providers that need a key                             *)

\* The resolution is suspended in the Google provider, which is enabled
\* with no API key or with the placeholder for one.
AwaitsGoogleWithoutKey(call) ==
    /\ call.pc = "awaiting"
    /\ call.log[Len(call.log)].provider = "Google"
    /\ config.present
    /\ config.ENABLE_GOOGLE
    /\ config.GOOGLE_MAPS_API_KEY \in {"", GooglePlaceholder}

\* C35: the Google provider, enabled without a configured API key, issues no
\* network request; its invocation ends as a failed provider, and the
\* resolution goes on to the next provider of the candidate list or, when
\* Google was the last, returns the simulated reading.
C35_GoogleWithoutKeyFailsOffline ==
    [][\A c \in CallSites :
          /\ AwaitsGoogleWithoutKey(calls'[c]) => ~calls'[c].fetching
          /\ (AwaitsGoogleWithoutKey(calls[c]) /\ calls'[c] # calls[c]) =>
                LET i == Len(calls[c].log)
                    sources == ExpectedSources(config)
                IN  /\ calls'[c].log[i] =
                          [provider |-> "Google", status |-> "failed"]
                    /\ calls'[c].last = "no_request"
                    /\ IF i < Len(sources)
                       THEN /\ calls'[c].pc = "awaiting"
                            /\ Len(calls'[c].log) = i + 1
                            /\ calls'[c].log[i + 1] =
                                  [provider |-> sources[i + 1],
                                   status |-> "pending"]
                       ELSE /\ calls'[c].pc = "done"
                            /\ calls'[c].result.source = "simulated"]_vars

\* Google, enabled with the placeholder key, was invoked after the free
\* providers had failed, and failed; the resolution went on to MapBox.
C35_Witness ==
    \E c \in CallSites :
        /\ config.present
        /\ config.ENABLE_GOOGLE
        /\ config.GOOGLE_MAPS_API_KEY = GooglePlaceholder
        /\ Len(calls[c].log) >= 2
        /\ \E i \in 1..(Len(calls[c].log) - 1) :
              /\ calls[c].log[i] = [provider |-> "Google", status |-> "failed"]
              /\ calls[c].log[i + 1].provider = "MapBox"

\* MapBox is the only provider the configuration enables.
OnlyMapBox(cfg) ==
    /\ cfg.present
    /\ cfg.ENABLE_MAPBOX
    /\ ~cfg.ENABLE_USGS
    /\ ~cfg.ENABLE_OPEN_ELEVATION
    /\ ~cfg.ENABLE_GOOGLE

-----------------------------------------------------------------------------
(* Properties of the probe points                                          *)

\* The square of the offset of the point from the origin, in 1e-3 degree of
\* a great circle: the offset to the north, and the offset to the east
\* shortened by the cosine of the latitude.
SquaredOffset(origin, point) ==
    LET north == Abs(point.lat - origin.lat) \div 100
        east == ((Abs(point.lng - origin.lng) \div 100)
                    * Cos1000(origin.lat)) \div 1000
    IN  north * north + east * east

\* The point lies the distance from the origin, to within a fortieth.
LiesAtDistance(origin, point, distanceMiles) ==
    LET expected == (DegreesOfMiles(distanceMiles) \div 100)
                        * (DegreesOfMiles(distanceMiles) \div 100)
    IN  100 * Abs(SquaredOffset(origin, point) - expected) <= 5 * expected

\* C39: every probe of ring d lies d miles from the origin, in the diagonal
\* directions as in the others, and the distance displayed with the safer
\* city is the offset of that city's coordinates from the origin.
C39_ProbesLieOnTheirRing ==
    /\ search.evaluated >= 1 =>
          LiesAtDistance(userLocation, search.testLocation, search.distance)
    /\ display.saferCity =>
          LiesAtDistance(userLocation, display.saferLocation,
                         display.distance)

-----------------------------------------------------------------------------
(* Properties of the page's current risk                                   *)

\* The step in which the assessment of a request stores its level.
Applied(a) == assessments[a].pc = "risk" /\ assessments'[a].pc = "done"

\* The step in which a search begins its first probe.
Started ==
    /\ search.pc \in {"idle", "done"}
    /\ search'.pc \in {"elevation", "rainfall"}
    /\ search'.evaluated = 1
    /\ display'.loading

C40_LevelAndScoreOfOneCalculation ==
    /\ \/ currentRisk = NoRisk
       \/ \E a \in Requests :
             /\ assessments[a].pc = "done"
             /\ currentRisk = [level |-> assessments[a].riskData.level,
                               score |-> assessments[a].riskData.score]
    /\ currentRisk.score = Null <=> currentRisk.level = "unknown"

\* Both assessments have completed, Houston's last although Denver was
\* requested later, and the current risk is Houston's level and score.
C40_Witness ==
    /\ \A a \in Requests : assessments[a].pc = "done"
    /\ userLocation = Location(LaterPoint.lat, LaterPoint.lng)
    /\ currentRisk.level = "very-high"
    /\ currentRisk.score = assessments["assess"].riskData.score
    /\ currentRisk.score # assessments["later"].riskData.score

-----------------------------------------------------------------------------
(* Properties of the candidate returned                                    *)

\* C32: the candidate on display has the level low or medium, a distance
\* of 20, 40, ..., 160 miles, one of the eight compass directions, and the
\* coordinates of the probe point computed for that distance and that
\* direction from the user's location, which is the origin of the search.
C32_CandidateIsItsProbe ==
    display.saferCity =>
        /\ display.riskLevel \in {"low", "medium"}
        /\ display.distance \in {20 * k : k \in 1..8}
        /\ \E k \in 1..Len(StatedDirections) :
              display.direction = StatedDirections[k]
        /\ display.saferLocation =
              calculateLocationAtDistance(
                  userLocation.lat, userLocation.lng,
                  Northward(display.direction), Eastward(display.direction),
                  display.distance)

\* A candidate of the second ring is on display: 40 miles to the southwest,
\* of level medium.
C32_Witness ==
    /\ search.outcome = "found"
    /\ display.saferCity
    /\ display.distance = 40
    /\ display.direction = "Southwest"
    /\ display.riskLevel = "medium"
    /\ display.saferLocation = search.testLocation

====
